---- MODULE Spec2Model ----
(***************************************************************************)
(* Model of the t-tool translation core (tt_core): placeholder firewall,   *)
(* glossary lock tokens, QA checks, translation memory, review store and   *)
(* job orchestrator.                                                       *)
(*                                                                         *)
(* Text is modelled at character level: a Python str is a sequence of      *)
(* one-character strings.  The two bracket characters of the lock-token    *)
(* lexicon, U+27E6 and U+27E7, are written LB and RB.                      *)
(***************************************************************************)
EXTENDS Naturals, Integers, Sequences, FiniteSets, TLC

(***************************************************************************)
(* Characters                                                              *)
(***************************************************************************)
LB == "[["
RB == "]]"
NL == "\n"
BS == "\\"

LowerLetters ==
  <<"a","b","c","d","e","f","g","h","i","j","k","l","m",
    "n","o","p","q","r","s","t","u","v","w","x","y","z">>
UpperLetters ==
  <<"A","B","C","D","E","F","G","H","I","J","K","L","M",
    "N","O","P","Q","R","S","T","U","V","W","X","Y","Z">>
DigitChars == <<"0","1","2","3","4","5","6","7","8","9">>

Range(f) == { f[i] : i \in DOMAIN f }

\* membership of a character in a regex character class or str predicate
InClass(cls, c) ==
  CASE cls = "lower" -> c \in Range(LowerLetters)
    [] cls = "upper" -> c \in Range(UpperLetters)
    [] cls = "digit" -> c \in Range(DigitChars)
    [] cls = "alpha" -> c \in Range(LowerLetters) \cup Range(UpperLetters)
    [] cls = "alnum" ->
         c \in Range(LowerLetters) \cup Range(UpperLetters) \cup Range(DigitChars)
    [] cls = "word" ->
         c \in Range(LowerLetters) \cup Range(UpperLetters) \cup Range(DigitChars)
               \cup {"_"}
    [] cls = "space" -> c \in {" ", NL, "\t", "\r"}
    [] cls = "notcurly" -> c \notin {"{", "}", "\r", NL}
    [] cls = "notgt" -> c # ">"
    [] cls = "sd" -> c \in {"s", "d"}
    [] OTHER -> FALSE

\* str.lower() on one character
LowerChar(c) ==
  IF c \in Range(UpperLetters)
    THEN LowerLetters[CHOOSE i \in DOMAIN UpperLetters : UpperLetters[i] = c]
    ELSE c

\* code-point order of the characters used by the model (for sorted())
CodeOrder ==
  <<"\t", NL, "\r", " ", "!", "$", "%", "-", ".", "/">> \o DigitChars \o
  <<":", "<", "=", ">">> \o UpperLetters \o <<"[", BS, "]", "_">> \o
  LowerLetters \o <<"{", "}", LB, RB>>

(***************************************************************************)
(* String helpers (Python str operations)                                  *)
(***************************************************************************)
Slice(t, a, b) == IF b < a THEN <<>> ELSE SubSeq(t, a, b)

RECURSIVE StrLess(_, _)
\* s < t for Python strings (lexicographic by code point)
StrLess(s, t) ==
  IF t = <<>> THEN FALSE
  ELSE IF s = <<>> THEN TRUE
  ELSE IF s[1] # t[1]
    THEN (CHOOSE i \in DOMAIN CodeOrder : CodeOrder[i] = s[1])
           < (CHOOSE i \in DOMAIN CodeOrder : CodeOrder[i] = t[1])
  ELSE StrLess(Tail(s), Tail(t))

\* t.startswith(p, i) with 1-based i
HasAt(t, i, p) ==
  /\ i + Len(p) - 1 <= Len(t)
  /\ \A k \in 1..Len(p) : t[i + k - 1] = p[k]

\* case-insensitive variant (re.IGNORECASE on ASCII letters)
HasAtCI(t, i, p) ==
  /\ i + Len(p) - 1 <= Len(t)
  /\ \A k \in 1..Len(p) : LowerChar(t[i + k - 1]) = LowerChar(p[k])

\* the leftmost of a non-empty set of positions
Leftmost(S) == CHOOSE a \in S : \A b \in S : a <= b

RECURSIVE ReplaceFrom(_, _, _, _)
\* the text from index i with the occurrences of old replaced, left to right
ReplaceFrom(t, i, old, new) ==
  LET hits == { j \in i..Len(t) : HasAt(t, j, old) }
  IN IF hits = {} THEN Slice(t, i, Len(t))
     ELSE Slice(t, i, Leftmost(hits) - 1) \o new
            \o ReplaceFrom(t, Leftmost(hits) + Len(old), old, new)

\* str.replace(old, new) for a non-empty old
Replace(t, old, new) == ReplaceFrom(t, 1, old, new)

RECURSIVE CountFrom(_, _, _)
\* str.count(p) from index i: non-overlapping occurrences of a non-empty p
CountFrom(t, i, p) ==
  LET hits == { j \in i..Len(t) : HasAt(t, j, p) }
  IN IF hits = {} THEN 0 ELSE 1 + CountFrom(t, Leftmost(hits) + Len(p), p)

\* greedy run of a character class: the first index j >= i that is past the
\* end or holds a character outside the class
RunEnd(t, i, cls) ==
  CHOOSE j \in i..(Len(t) + 1) :
    /\ (j = Len(t) + 1 \/ ~InClass(cls, t[j]))
    /\ \A k \in i..(j - 1) : InClass(cls, t[k])

\* str(k) for a small natural number
NatToStr(k) ==
  IF k < 10 THEN <<DigitChars[k + 1]>>
  ELSE <<DigitChars[(k \div 10) + 1], DigitChars[(k % 10) + 1]>>

(***************************************************************************)
(* Placeholder firewall: tt_core/qa/placeholder_firewall.py                *)
(***************************************************************************)
\* the pattern table, in priority order
PlaceholderKinds ==
  <<"double_curly", "angle_tag", "curly", "percent", "escaped_newline", "newline">>

\* each matcher returns the index just past the match starting at i, or 0

\* \{\{[^{}\r\n]+\}\}
MatchDoubleCurly(t, i) ==
  IF HasAt(t, i, <<"{", "{">>)
    THEN LET j == RunEnd(t, i + 2, "notcurly")
         IN IF j > i + 2 /\ HasAt(t, j, <<"}", "}">>) THEN j + 2 ELSE 0
    ELSE 0

\* name\b[^>]*> starting at s
MatchTagBody(t, s, name) ==
  IF HasAtCI(t, s, name)
     /\ (s + Len(name) > Len(t) \/ ~InClass("word", t[s + Len(name)]))
    THEN LET j == RunEnd(t, s + Len(name), "notgt")
         IN IF j <= Len(t) THEN j + 1 ELSE 0
    ELSE 0

\* </?(?:b|i|color|size)\b[^>]*>|<sprite\b[^>]*>   (re.IGNORECASE)
MatchAngleTag(t, i) ==
  IF i <= Len(t) /\ t[i] = "<"
    THEN LET s == IF HasAt(t, i + 1, <<"/">>) THEN i + 2 ELSE i + 1
             names == { <<"b">>, <<"i">>, <<"c","o","l","o","r">>,
                        <<"s","i","z","e">> }
             ends == { MatchTagBody(t, s, n) : n \in names } \ {0}
         IN IF ends # {} THEN CHOOSE e \in ends : TRUE
            ELSE MatchTagBody(t, i + 1, <<"s","p","r","i","t","e">>)
    ELSE 0

\* \{(?:\d+|[A-Za-z_][A-Za-z0-9_]*)\}
MatchCurly(t, i) ==
  IF i + 1 <= Len(t) /\ t[i] = "{"
    THEN LET cls == IF InClass("digit", t[i + 1]) THEN "digit"
                    ELSE IF InClass("alpha", t[i + 1]) \/ t[i + 1] = "_"
                      THEN "word"
                    ELSE "none"
             j == RunEnd(t, i + 1, cls)
         IN IF cls # "none" /\ HasAt(t, j, <<"}">>) THEN j + 1 ELSE 0
    ELSE 0

\* %(?:\d+\$)?[sd]
MatchPercent(t, i) ==
  IF i + 1 <= Len(t) /\ t[i] = "%"
    THEN IF InClass("digit", t[i + 1])
           THEN LET j == RunEnd(t, i + 1, "digit")
                IN IF HasAt(t, j, <<"$">>) /\ j + 1 <= Len(t)
                      /\ InClass("sd", t[j + 1])
                     THEN j + 2 ELSE 0
         ELSE IF InClass("sd", t[i + 1]) THEN i + 2
         ELSE 0
    ELSE 0

\* re.compile(pattern).match(text, i) for one entry of the pattern table
MatchAt(kind, t, i) ==
  CASE kind = "double_curly" -> MatchDoubleCurly(t, i)
    [] kind = "angle_tag" -> MatchAngleTag(t, i)
    [] kind = "curly" -> MatchCurly(t, i)
    [] kind = "percent" -> MatchPercent(t, i)
    [] kind = "escaped_newline" -> IF HasAt(t, i, <<BS, "n">>) THEN i + 2 ELSE 0
    [] kind = "newline" -> IF HasAt(t, i, <<NL>>) THEN i + 1 ELSE 0

RECURSIVE FindFrom(_, _, _, _)
\* non-overlapping matches, left to right, from index i; ends[i] is where the
\* match starting at i stops (0: none); spans are [start, end), 1-based
FindFrom(kind, t, i, ends) ==
  LET hits == { j \in i..Len(t) : ends[j] > 0 }
  IN IF hits = {} THEN <<>>
     ELSE <<[start |-> Leftmost(hits), end |-> ends[Leftmost(hits)], type |-> kind,
             value |-> SubSeq(t, Leftmost(hits), ends[Leftmost(hits)] - 1)]>>
            \o FindFrom(kind, t, ends[Leftmost(hits)], ends)

\* pattern.finditer(text)
FindIter(kind, t) == FindFrom(kind, t, 1, [i \in DOMAIN t |-> MatchAt(kind, t, i)])

RECURSIVE KeepFree(_, _)
\* the inner loop of extract_placeholders for one pattern, with _overlaps
KeepFree(matches, collected) ==
  IF matches = <<>> THEN collected
  ELSE IF \E k \in DOMAIN collected :
            /\ Head(matches).start < collected[k].end
            /\ collected[k].start < Head(matches).end
    THEN KeepFree(Tail(matches), collected)
  ELSE KeepFree(Tail(matches), Append(collected, Head(matches)))

RECURSIVE CollectKinds(_, _, _)
\* the outer loop of extract_placeholders over the pattern table
CollectKinds(t, k, collected) ==
  IF k > Len(PlaceholderKinds) THEN collected
  ELSE CollectKinds(t, k + 1, KeepFree(FindIter(PlaceholderKinds[k], t), collected))

RECURSIVE SortByStart(_)
\* collected.sort(key=start); the collected spans are pairwise disjoint
SortByStart(items) ==
  IF items = <<>> THEN <<>>
  ELSE LET k == CHOOSE k \in DOMAIN items :
                  \A j \in DOMAIN items : items[k].start <= items[j].start
       IN <<items[k]>> \o
          SortByStart(SubSeq(items, 1, k - 1) \o SubSeq(items, k + 1, Len(items)))

\* f"⟦PH_{index}⟧"
PHToken(k) == <<LB, "P", "H", "_">> \o NatToStr(k) \o <<RB>>

\* the Placeholder objects built from the sorted spans
NumberPlaceholders(sorted) ==
  [k \in DOMAIN sorted |->
     [type |-> sorted[k].type, value |-> sorted[k].value,
      start |-> sorted[k].start, end |-> sorted[k].end, token |-> PHToken(k)]]

extract_placeholders(t) ==
  IF t = <<>> THEN <<>>
  ELSE NumberPlaceholders(SortByStart(CollectKinds(t, 1, <<>>)))

RECURSIVE ProtectChunks(_, _, _, _)
\* the chunk loop of protect_text, joined
ProtectChunks(t, phs, k, cursor) ==
  IF k > Len(phs) THEN Slice(t, cursor, Len(t))
  ELSE Slice(t, cursor, phs[k].start - 1) \o phs[k].token
       \o ProtectChunks(t, phs, k + 1, phs[k].end)

\* protect_text after the call of extract_placeholders
ProtectWith(t, phs) ==
  [original |-> t,
   protected |-> IF phs = <<>> THEN t ELSE ProtectChunks(t, phs, 1, 1),
   placeholders |-> phs]

protect_text(t) == ProtectWith(t, extract_placeholders(t))

RECURSIVE ReinjectFrom(_, _, _)
ReinjectFrom(phs, k, output) ==
  IF k > Len(phs) THEN output
  ELSE ReinjectFrom(phs, k + 1, Replace(output, phs[k].token, phs[k].value))

\* reinject with the loop started one placeholder too late
reinject_from_second(protected_text, translated_with_tokens) ==
  ReinjectFrom(protected_text.placeholders, 2, translated_with_tokens)

reinject(protected_text, translated_with_tokens) ==
  ReinjectFrom(protected_text.placeholders, 1, translated_with_tokens)

\* [item.value for item in placeholders]
ValuesOf(phs) == [k \in DOMAIN phs |-> phs[k].value]

RECURSIVE SortedStrings(_)
\* sorted(set_of_strings)
SortedStrings(S) ==
  IF S = {} THEN <<>>
  ELSE LET m == CHOOSE m \in S : \A o \in S \ {m} : StrLess(m, o)
       IN <<m>> \o SortedStrings(S \ {m})

\* the count loop of validate_placeholders: one error per value whose number
\* of occurrences differs, in sorted order of the values
CountErrors(vals, orig, fin) ==
  LET cnt(xs, v) == Cardinality({ k \in DOMAIN xs : xs[k] = v })
      bad == SelectSeq(vals, LAMBDA v : cnt(orig, v) # cnt(fin, v))
  IN [k \in DOMAIN bad |->
        [kind |-> IF cnt(fin, bad[k]) < cnt(orig, bad[k]) THEN "Missing" ELSE "Extra",
         value |-> bad[k],
         expected |-> cnt(orig, bad[k]), found |-> cnt(fin, bad[k])]]

\* validate_placeholders after the two calls of extract_placeholders
CompareValues(original_values, final_values) ==
  LET errors == CountErrors(SortedStrings(Range(original_values)
                                          \cup Range(final_values)),
                            original_values, final_values)
  IN IF errors = <<>> /\ original_values # final_values
       THEN <<[kind |-> "Order", value |-> <<>>, expected |-> 0, found |-> 0]>>
       ELSE errors

\* validate_placeholders without the final order comparison
validate_placeholders_no_order(original_text, final_text) ==
  CountErrors(SortedStrings(Range(ValuesOf(extract_placeholders(original_text)))
                            \cup Range(ValuesOf(extract_placeholders(final_text)))),
              ValuesOf(extract_placeholders(original_text)),
              ValuesOf(extract_placeholders(final_text)))

validate_placeholders(original_text, final_text) ==
  CompareValues(ValuesOf(extract_placeholders(original_text)),
                ValuesOf(extract_placeholders(final_text)))

(***************************************************************************)
(* Lock-token lexicon: tt_core/glossary/matcher.py, enforcer.py, checks.py *)
(***************************************************************************)
\* f"⟦TERM_{index}⟧"
TermToken(k) == <<LB, "T", "E", "R", "M", "_">> \o NatToStr(k) \o <<RB>>

\* LB prefix \d+ RB starting at i: the index just past the token, or 0
MatchTokenWith(t, i, prefix) ==
  IF HasAt(t, i, <<LB>> \o prefix)
    THEN LET j == RunEnd(t, i + 1 + Len(prefix), "digit")
         IN IF j > i + 1 + Len(prefix) /\ HasAt(t, j, <<RB>>) THEN j + 1 ELSE 0
    ELSE 0

RECURSIVE TokenSeqFrom(_, _, _)
\* the lock tokens of one family (prefix) occurring in t, left to right
TokenSeqFrom(t, i, prefix) ==
  LET hits == { j \in i..Len(t) : MatchTokenWith(t, j, prefix) > 0 }
  IN IF hits = {} THEN <<>>
     ELSE <<SubSeq(t, Leftmost(hits), MatchTokenWith(t, Leftmost(hits), prefix) - 1)>>
            \o TokenSeqFrom(t, MatchTokenWith(t, Leftmost(hits), prefix), prefix)

\* the ⟦PH_k⟧ tokens of a text, left to right
PHTokenSeq(t) == TokenSeqFrom(t, 1, <<"P", "H", "_">>)

\* _GLOSSARY_TOKEN_PATTERN.findall(text): the ⟦TERM_k⟧ tokens, left to right
TermTokenSeq(t) == TokenSeqFrom(t, 1, <<"T", "E", "R", "M", "_">>)

(***************************************************************************)
(* Schema migrations: tt_core/db/migrations.py.  A database file is its    *)
(* tables, the columns of segments and the schema_version row of           *)
(* schema_meta (0: no such row).                                           *)
(***************************************************************************)
\* the CREATE TABLE statements of _migration_v1, in order (each index is
\* created right after its table and adds no table)
V1Tables ==
  <<"schema_meta", "projects", "project_locales", "assets", "schema_profiles",
    "segments", "translation_candidates", "approved_translations", "tm_entries",
    "glossary_terms", "qa_flags", "jobs">>

V1SegmentColumns ==
  {"id", "asset_id", "sheet_name", "row_index", "key", "source_locale", "source_text",
   "cn_text", "context_json", "char_limit", "placeholders_json"}

\* the statements of migration v: what each creates
MigrationStatements(v) ==
  CASE v = 1 -> [k \in DOMAIN V1Tables |-> [table |-> V1Tables[k], column |-> "none"]]
    [] v = 2 -> <<[table |-> "tm_fts", column |-> "none"]>>
    [] OTHER -> <<[table |-> "none", column |-> "source_text_old"]>>

\* the keys of MIGRATIONS
MigrationVersions == {1, 2, 3}

\* one statement on a database file; CREATE TABLE IF NOT EXISTS leaves an
\* existing table alone
ExecuteStatement(db, statement) ==
  [db EXCEPT
     !.tables = IF statement.table = "none" THEN @ ELSE @ \cup {statement.table},
     !.segment_columns =
        IF statement.table = "segments" /\ "segments" \notin db.tables
          THEN V1SegmentColumns
        ELSE IF statement.column = "none" THEN @ ELSE @ \cup {statement.column}]

_set_schema_version(db, version) == [db EXCEPT !.version = version]

\* get_schema_version
get_schema_version(db) == IF "schema_meta" \in db.tables THEN db.version ELSE 0

NoDatabase == [tables |-> {}, segment_columns |-> {}, version |-> 0]

RECURSIVE RunStatements(_, _, _)
RunStatements(db, statements, k) ==
  IF k > Len(statements) THEN db
  ELSE RunStatements(ExecuteStatement(db, statements[k]), statements, k + 1)

RECURSIVE DatabaseAt(_)
\* a database file that was migrated up to the given version
DatabaseAt(version) ==
  IF version = 0 THEN NoDatabase
  ELSE _set_schema_version(
         RunStatements(DatabaseAt(version - 1), MigrationStatements(version), 1), version)

PendingVersions_below_latest(current_version) ==
  { v \in MigrationVersions : v > current_version /\ v < 3 }

PendingVersions_from_the_first(current_version) ==
  IF current_version \in MigrationVersions
    THEN { v \in MigrationVersions : v > current_version }
    ELSE MigrationVersions

\* the migrations of migrate_to_latest that are still to run, lowest first
PendingVersions(current_version) == { v \in MigrationVersions : v > current_version }

\* no initialize_database in flight; autocommit tells whether the driver
\* commits a DDL statement that no open transaction covers
SchemaIdle(db) ==
  [db |-> db, saved |-> db, pc |-> "idle", from_version |-> get_schema_version(db),
   target_version |-> 0, statement |-> 0, dml |-> FALSE, autocommit |-> FALSE]

(***************************************************************************)
(* State                                                                   *)
(***************************************************************************)
VARIABLES
  fw,                      \* one pass of a source text through the placeholder firewall
  change,                  \* one call of classify_change: its arguments and its result
  schema,                  \* the database file and the initialize_database call in flight
  assets,                  \* table assets
  schema_profiles,         \* table schema_profiles
  import_summary,          \* what the last import_asset call returned or raised
  lp_copy,                 \* the last export_lp_copy_with_new_column call: the original workbook and the saved copy
  glossary,                \* table glossary_terms and the last glossary call with its result
  clock,                   \* the time _utc_now_iso reads, in whole seconds
  segments,                \* table segments (with the project of its asset)
  translation_candidates,  \* table translation_candidates: per (segment, locale) the rows in id order
  qa_flags,                \* table qa_flags: per (segment, locale) the stored issues
  approved_translations,   \* table approved_translations
  approvals,               \* the calls of upsert_approved_translation made so far, in order
  tm_entries,              \* table tm_entries
  tm_fts,                  \* table tm_fts, the full-text mirror of tm_entries
  search,                  \* the last search_fuzzy call and the hits it returned
  jobs,                    \* table jobs, in creation order
  run                      \* the job run in flight and its open transaction

storeVars ==
  <<schema, assets, schema_profiles, import_summary, lp_copy, glossary, tm_fts, search, clock, segments, translation_candidates, qa_flags, approved_translations,
    approvals, tm_entries, jobs, run>>

vars == <<fw, change, storeVars>>

\* assets an execution imports and rows per asset
MaxAssets == 2
MaxRows == 2

Locales == {"de", "fr"}
SegmentIds == (1..MaxAssets) \X (1..MaxRows)
SegmentKeys == SegmentIds \X Locales

\* calls of the import, review and job services an execution makes
MaxCalls == 4

\* the counters a job run keeps while it loops over the segments
NoCounts ==
  [processed |-> 0, changed_rows |-> 0, proposals_created |-> 0,
   keep |-> 0, update |-> 0, flag |-> 0]

\* no job in flight; calls counts the service calls made so far, consumed
\* lists the TM rows the jobs that ended done have used, one entry per use
NoRun ==
  [job_id |-> 0, pc |-> "idle", idx |-> 0, saved |-> <<>>, trace |-> <<>>, calls |-> 0,
   counts |-> NoCounts, fallback |-> [translator |-> "none", reviewer |-> "none"],
   consumed |-> <<>>]

\* a run_*_job call is between create_job and its return
Busy == run.pc \in {"queued", "running"}

\* the tables of a project before its first import
EmptyTables ==
  /\ assets = {}
  /\ lp_copy = [pc |-> "none", error |-> "none", asset_id |-> 0, target_locale |-> "none",
               original |-> <<>>, workbook |-> <<>>, row_count |-> 0]
  /\ schema_profiles = {}
  /\ import_summary = [asset_id |-> 0, imported_rows |-> 0, skipped_rows |-> 0, error |-> "none",
                file_type |-> "none",
                frame |-> [columns |-> {}, names |-> <<>>, rows |-> <<>>],
                mapping |-> [mode |-> "none", source_new |-> "none", source_old |-> "none",
                            target |-> "none", target_locale |-> "none", key |-> "none",
                            char_limit |-> "none"]]
  /\ clock = 1
  /\ segments = {}
  /\ translation_candidates = [k \in SegmentKeys |-> <<>>]
  /\ qa_flags = [k \in SegmentKeys |-> <<>>]
  /\ approved_translations = {}
  /\ approvals = <<>>
  /\ tm_entries = {}
  /\ tm_fts = {}
  /\ search = [pc |-> "none", project_id |-> "none", source_locale |-> "none",
               target_locale |-> "none", source_text |-> <<>>, limit |-> 0, hits |-> <<>>]
  /\ jobs = <<>>
  /\ run = NoRun

\* a freshly initialised database (tt_core/db/migrations.py)
EmptyStore ==
  /\ schema = SchemaIdle(DatabaseAt(3))
  /\ glossary = [pc |-> "none", terms |-> {}, project_id |-> "none", locale_code |-> "none",
                include_global |-> FALSE, loaded |-> <<>>, text |-> <<>>, matches |-> <<>>]
  /\ EmptyTables

(***************************************************************************)
(* Specification SpecFirewall: protect -> translate -> reinject -> validate*)
(***************************************************************************)
\* number of pieces a source text is assembled from
MaxSrcPieces == 2

\* fragments of source text: plain text, every placeholder kind, stray
\* syntax characters and a literal occurrence of the reserved token
SrcPieces ==
  { <<"a">>, <<" ">>, <<"{", "0", "}">>, <<"%", "s">>, <<"<", "b", ">">>,
    <<"{", "{", "x", "}", "}">>, <<NL>>, <<BS, "n">>, <<"{">>,
    PHToken(1) }

RECURSIVE PieceStrings(_)
PieceStrings(n) ==
  IF n = 0 THEN { <<>> }
  ELSE PieceStrings(n - 1) \cup
       { p \o s : p \in SrcPieces, s \in PieceStrings(n - 1) }

\* what a translator may hand back for the protected text p: the text as
\* given, with text added, or with a token removed, duplicated, rewritten,
\* replaced by its literal, or two tokens exchanged
FwOutputs(p, phs) ==
  { p, <<"a", " ">> \o p, p \o <<NL>> }
  \cup { Replace(p, phs[k].token, <<>>) : k \in DOMAIN phs }
  \cup { Replace(p, phs[k].token, phs[k].token \o phs[k].token) : k \in DOMAIN phs }
  \cup { Replace(p, phs[k].token, phs[k].value) : k \in DOMAIN phs }
  \cup { Replace(p, phs[k].token, <<LB, "p", "h", "_">> \o NatToStr(k) \o <<RB>>) :
           k \in DOMAIN phs }
  \cup { Replace(Replace(Replace(p, phs[j].token, <<"#">>),
                         phs[k].token, phs[j].token),
                 <<"#">>, phs[k].token) : j \in DOMAIN phs, k \in DOMAIN phs }

\* no call of classify_change
NoChange == [pc |-> "idle", old |-> <<>>, new |-> <<>>, classification |-> <<>>]

FwIdle ==
  [pc |-> "idle", S |-> <<>>,
   P |-> [original |-> <<>>, protected |-> <<>>, placeholders |-> <<>>],
   T |-> <<>>, final |-> <<>>, errors |-> <<>>]

InitFirewall ==
  /\ \E s \in PieceStrings(MaxSrcPieces) : fw = [FwIdle EXCEPT !.pc = "source", !.S = s]
  /\ change = NoChange
  /\ EmptyStore

FwProtect ==
  /\ fw.pc = "source"
  /\ fw' = [fw EXCEPT !.pc = "protected", !.P = protect_text(fw.S)]

FwTranslate ==
  /\ fw.pc = "protected"
  /\ \E t \in FwOutputs(fw.P.protected, fw.P.placeholders) :
       fw' = [fw EXCEPT !.pc = "translated", !.T = t]

FwReinject ==
  /\ fw.pc = "translated"
  /\ fw' = [fw EXCEPT !.pc = "reinjected", !.final = reinject(fw.P, fw.T)]

FwValidate ==
  /\ fw.pc = "reinjected"
  /\ fw' = [fw EXCEPT !.pc = "validated",
                      !.errors = validate_placeholders(fw.S, fw.final)]

NextFirewall ==
  /\ FwProtect \/ FwTranslate \/ FwReinject \/ FwValidate
  /\ UNCHANGED <<change, storeVars>>

SpecFirewall == InitFirewall /\ [][NextFirewall]_vars

(***************************************************************************)
(* Glossary matcher and enforcer: tt_core/glossary/matcher.py, enforcer.py *)
(* A GlossaryTerm is a record [source_term, target_term, match_type,       *)
(* case_sensitive, allow_compounds, compound_strategy, negative_patterns]; *)
(* a negative pattern is a literal string (a regex with no metacharacter). *)
(* Spans are [start, end) with 1-based start.                              *)
(***************************************************************************)
\* str.lower() / str.casefold() on the model's alphabet
Lower(s) == [k \in DOMAIN s |-> LowerChar(s[k])]

\* _equals(left, right, case_sensitive=...)
StrEquals(left, right, case_sensitive) ==
  IF case_sensitive THEN left = right ELSE Lower(left) = Lower(right)

\* the spans of _LOCKED_TOKEN_PATTERN.finditer(text); two tokens never overlap
LockedSpans(t) ==
  { sp \in { [start |-> i,
              end |-> IF MatchTokenWith(t, i, <<"P", "H", "_">>) > 0
                        THEN MatchTokenWith(t, i, <<"P", "H", "_">>)
                        ELSE MatchTokenWith(t, i, <<"T", "E", "R", "M", "_">>)] :
             i \in DOMAIN t } : sp.end > 0 }

\* _span_overlaps(start, end, spans)
SpanOverlaps(start, end, spans) ==
  \E sp \in spans : start < sp.end /\ sp.start < end

\* _iter_alnum_tokens(text, blocked_spans=...): the maximal alphanumeric runs
\* that touch no blocked span
AlnumTokens(t, blocked) ==
  { tk \in { [start |-> i, end |-> RunEnd(t, i, "alnum")] :
             i \in { j \in DOMAIN t : /\ InClass("alnum", t[j])
                                      /\ (j = 1 \/ ~InClass("alnum", t[j - 1])) } } :
      ~SpanOverlaps(tk.start, tk.end, blocked) }

CompoundSplitPoints_at_every_index(token) == 1..(Len(token) - 1)

\* _compound_split_points(token), as 0-based indices into the token
CompoundSplitPoints(token) ==
  { index \in 1..(Len(token) - 1) :
      \/ InClass("alpha", token[index]) /\ InClass("digit", token[index + 1])
      \/ InClass("digit", token[index]) /\ InClass("alpha", token[index + 1])
      \/ InClass("lower", token[index]) /\ InClass("upper", token[index + 1])
      \/ /\ InClass("upper", token[index]) /\ InClass("lower", token[index + 1])
         /\ index >= 2 /\ InClass("upper", token[index - 1])
      \/ /\ InClass("upper", token[index]) /\ InClass("upper", token[index + 1])
         /\ index + 2 <= Len(token) /\ InClass("lower", token[index + 2]) }

\* _apply_compound_strategy(full_token, rest, target_term, strategy)
ApplyCompoundStrategy(full_token, rest, target_term, strategy) ==
  IF strategy = "keep_source" THEN full_token
  ELSE IF strategy = "replace_prefix" THEN target_term \o rest
  ELSE target_term \o <<"-">> \o rest

\* pattern.search(text) for a literal pattern
SearchLiteral(t, p, case_sensitive) ==
  \E i \in 1..(Len(t) + 1) :
    IF case_sensitive THEN HasAt(t, i, p) ELSE HasAtCI(t, i, p)

\* _is_negative_pattern_blocked: the context window is part of the text, so
\* a pattern found in the window is found in the text
IsNegativePatternBlocked(term, t) ==
  \E k \in DOMAIN term.negative_patterns :
    SearchLiteral(t, term.negative_patterns[k], term.case_sensitive)

\* the TermMatch, if any, of one term on one alphanumeric token
TokenMatch(t, term, tk, priority) ==
  IF StrEquals(SubSeq(t, tk.start, tk.end - 1), term.source_term, term.case_sensitive)
    THEN { [start |-> tk.start, end |-> tk.end, priority |-> priority,
            term |-> term, enforced_text |-> term.target_term,
            is_compound |-> FALSE] }
  ELSE IF /\ term.allow_compounds
          /\ tk.end - tk.start > Len(term.source_term)
          /\ StrEquals(SubSeq(t, tk.start, tk.start + Len(term.source_term) - 1),
                       term.source_term, term.case_sensitive)
          /\ Len(term.source_term)
               \in CompoundSplitPoints(SubSeq(t, tk.start, tk.end - 1))
    THEN { [start |-> tk.start, end |-> tk.end, priority |-> priority,
            term |-> term,
            enforced_text |->
              ApplyCompoundStrategy(SubSeq(t, tk.start, tk.end - 1),
                                    SubSeq(t, tk.start + Len(term.source_term),
                                           tk.end - 1),
                                    term.target_term, term.compound_strategy),
            is_compound |-> TRUE] }
  ELSE {}

\* _find_token_matches(text, term, tokens, priority)
FindTokenMatches(t, term, tokens, priority) ==
  IF term.source_term = <<>> \/ IsNegativePatternBlocked(term, t) THEN {}
  ELSE UNION { TokenMatch(t, term, tk, priority) : tk \in tokens }

RECURSIVE FindLiteralFrom(_, _, _, _)
\* re.compile(re.escape(p), flags).finditer(text): starts of the
\* non-overlapping occurrences, left to right, from index i
FindLiteralFrom(t, i, p, case_sensitive) ==
  LET hits == { j \in i..Len(t) :
                  IF case_sensitive THEN HasAt(t, j, p) ELSE HasAtCI(t, j, p) }
  IN IF hits = {} THEN {}
     ELSE {Leftmost(hits)} \cup FindLiteralFrom(t, Leftmost(hits) + Len(p), p, case_sensitive)

\* _find_exact_matches(text, term, blocked_spans, priority)
FindExactMatches(t, term, blocked, priority) ==
  IF term.source_term = <<>> \/ IsNegativePatternBlocked(term, t) THEN {}
  ELSE { [start |-> i, end |-> i + Len(term.source_term), priority |-> priority,
          term |-> term, enforced_text |-> term.target_term,
          is_compound |-> FALSE] :
         i \in { j \in FindLiteralFrom(t, 1, term.source_term, term.case_sensitive) :
                   ~SpanOverlaps(j, j + Len(term.source_term), blocked) } }

MatchBefore_shorter_first(a, b) ==
  \/ a.start < b.start
  \/ a.start = b.start /\ a.end < b.end
  \/ a.start = b.start /\ a.end = b.end /\ a.priority < b.priority

\* the sort key order of _select_non_overlapping: (start, -(end - start),
\* priority); priorities are distinct per term, so later key parts never decide
MatchBefore(a, b) ==
  \/ a.start < b.start
  \/ a.start = b.start /\ a.end > b.end
  \/ a.start = b.start /\ a.end = b.end /\ a.priority < b.priority

RECURSIVE SelectFrom(_, _)
\* the greedy loop of _select_non_overlapping over the sorted candidates
SelectFrom(remaining, selected) ==
  IF remaining = {} THEN selected
  ELSE LET c == CHOOSE c \in remaining :
                  \A o \in remaining \ {c} : MatchBefore(c, o)
       IN SelectFrom(remaining \ {c},
                     IF SpanOverlaps(c.start, c.end, selected)
                       THEN selected ELSE selected \cup {c})

RECURSIVE OrderByStart(_)
\* sorted(selected, key=(start, end)) for pairwise disjoint spans
OrderByStart(S) ==
  IF S = {} THEN <<>>
  ELSE LET m == CHOOSE m \in S : \A o \in S : m.start <= o.start
       IN <<m>> \o OrderByStart(S \ {m})

\* the matches of all terms, given the blocked spans of the text
AllMatches(t, terms, blocked) ==
  UNION { IF terms[p].match_type \in {"whole_token", "word_boundary"}
            THEN FindTokenMatches(t, terms[p], AlnumTokens(t, blocked), p)
          ELSE IF terms[p].match_type = "exact"
            THEN FindExactMatches(t, terms[p], blocked, p)
          ELSE {} : p \in DOMAIN terms }

find_must_use_matches(t, terms) ==
  IF t = <<>> \/ terms = <<>> THEN <<>>
  ELSE OrderByStart(SelectFrom(AllMatches(t, terms, LockedSpans(t)), {}))

RECURSIVE EnforceChunks(_, _, _, _)
\* the chunk loop of enforce_must_use, joined
EnforceChunks(t, matches, k, cursor) ==
  IF k > Len(matches) THEN Slice(t, cursor, Len(t))
  ELSE Slice(t, cursor, matches[k].start - 1) \o TermToken(k)
       \o EnforceChunks(t, matches, k + 1, matches[k].end)

\* enforce_must_use after the call of find_must_use_matches; term_map is
\* read off expected_enforcements (token -> enforced_text)
EnforceWith(t, matches) ==
  [text_with_term_tokens |->
     IF matches = <<>> THEN t ELSE EnforceChunks(t, matches, 1, 1),
   expected_enforcements |->
     [k \in DOMAIN matches |->
        [token |-> TermToken(k),
         source_term |-> matches[k].term.source_term,
         target_term |-> matches[k].term.target_term,
         enforced_text |-> matches[k].enforced_text,
         is_compound |-> matches[k].is_compound]]]

enforce_must_use(t, terms) == EnforceWith(t, find_must_use_matches(t, terms))

RECURSIVE reinject_term_tokens_from(_, _, _)
reinject_term_tokens_from(output, expected, k) ==
  IF k > Len(expected) THEN output
  ELSE reinject_term_tokens_from(
         Replace(output, expected[k].token, expected[k].enforced_text),
         expected, k + 1)

\* reinject_term_tokens(text, term_map): tokens in the order of their index
reinject_term_tokens(t, expected) == reinject_term_tokens_from(t, expected, 1)

(***************************************************************************)
(* QA checks: tt_core/qa/checks.py.  A QAIssue is a record                 *)
(* [issue_type, severity, message]; the message keeps the values the code  *)
(* formats into its text.                                                  *)
(***************************************************************************)
\* translated_with_tokens=None
NoTokens == <<"None">>

QAIssue(issue_type, message) ==
  [issue_type |-> issue_type, severity |-> "error", message |-> message]

\* one placeholder_mismatch issue per message of validate_placeholders
PlaceholderIssues(messages) ==
  [k \in DOMAIN messages |-> QAIssue("placeholder_mismatch", messages[k])]

check_placeholders_unchanged(source, target) ==
  PlaceholderIssues(validate_placeholders(source, target))

\* one newline_mismatch issue per differing count
NewlineIssue(kind, expected, found) ==
  IF expected # found
    THEN <<QAIssue("newline_mismatch",
                   [kind |-> kind, expected |-> expected, found |-> found])>>
    ELSE <<>>

check_newlines_preserved(source, target) ==
  NewlineIssue("newline", CountFrom(source, 1, <<NL>>), CountFrom(target, 1, <<NL>>))
  \o NewlineIssue("escaped_newline", CountFrom(source, 1, <<BS, "n">>),
                  CountFrom(target, 1, <<BS, "n">>))

\* _count_non_overlapping_occurrences
CountOccurrences(t, needle) == IF needle = <<>> THEN 0 ELSE CountFrom(t, 1, needle)

\* expected.token not in translated_with_tokens, in the order of expected
MissingTokenIssues(expected_enforcements, translated_with_tokens) ==
  IF translated_with_tokens = NoTokens THEN <<>>
  ELSE LET missing == SelectSeq(expected_enforcements,
             LAMBDA e : CountFrom(translated_with_tokens, 1, e.token) = 0)
       IN [k \in DOMAIN missing |->
             QAIssue("glossary_violation",
                     [kind |-> "token_removed", token |-> missing[k].token])]

\* sorted(set(_GLOSSARY_TOKEN_PATTERN.findall(final_text)))
UnresolvedTokenIssues(final_text) ==
  LET tokens == SortedStrings(Range(TermTokenSeq(final_text)))
  IN [k \in DOMAIN tokens |->
        QAIssue("glossary_violation",
                [kind |-> "token_unresolved", token |-> tokens[k]])]

\* Counter(enforced_text ...) in first-occurrence order, found < expected
MissingTermIssues(expected_enforcements, final_text) ==
  LET firsts == { k \in DOMAIN expected_enforcements :
                    /\ expected_enforcements[k].enforced_text # <<>>
                    /\ \A j \in 1..(k - 1) :
                         expected_enforcements[j].enforced_text
                           # expected_enforcements[k].enforced_text }
      short == { k \in firsts :
                   CountOccurrences(final_text, expected_enforcements[k].enforced_text)
                     < Cardinality({ j \in DOMAIN expected_enforcements :
                           expected_enforcements[j].enforced_text
                             = expected_enforcements[k].enforced_text }) }
      picked == SelectSeq([k \in DOMAIN expected_enforcements |-> k],
                          LAMBDA k : k \in short)
  IN [n \in DOMAIN picked |->
        QAIssue("glossary_violation",
                [kind |-> "term_missing",
                 enforced_text |-> expected_enforcements[picked[n]].enforced_text])]

check_glossary_compliance(expected_enforcements, final_text, translated_with_tokens) ==
  IF expected_enforcements = <<>> THEN <<>>
  ELSE MissingTokenIssues(expected_enforcements, translated_with_tokens)
       \o UnresolvedTokenIssues(final_text)
       \o MissingTermIssues(expected_enforcements, final_text)

(***************************************************************************)
(* Candidate generation: tt_core/jobs/job_service.py                       *)
(***************************************************************************)
TM_FUZZY_THRESHOLD == 92
REVIEW_RISK_THRESHOLD == 5

_collect_qa_issues_without_tokens(source_text, final_text, expected_enforcements, translated_with_tokens) ==
  check_placeholders_unchanged(source_text, final_text)
  \o check_newlines_preserved(source_text, final_text)
  \o check_glossary_compliance(expected_enforcements, final_text, NoTokens)

_collect_qa_issues(source_text, final_text, expected_enforcements, translated_with_tokens) ==
  check_placeholders_unchanged(source_text, final_text)
  \o check_newlines_preserved(source_text, final_text)
  \o check_glossary_compliance(expected_enforcements, final_text,
                               translated_with_tokens)

\* source_text.strip()
Strip(t) ==
  LET keep == { k \in DOMAIN t : ~InClass("space", t[k]) }
  IN IF keep = {} THEN <<>>
     ELSE SubSeq(t, CHOOSE a \in keep : \A b \in keep : a <= b,
                    CHOOSE a \in keep : \A b \in keep : a >= b)

_compute_risk_score_without_glossary(source_text, char_limit, placeholders, glossary_hits) ==
  (IF char_limit # 0 THEN 3 ELSE 0)
  + (IF placeholders # <<>> THEN 2 ELSE 0)
  + (IF \E k \in DOMAIN placeholders : placeholders[k].type = "angle_tag" THEN 2 ELSE 0)
  + (IF Len(Strip(source_text)) < 12 THEN 2 ELSE 0)

\* char_limit is 0 for None
_compute_risk_score(source_text, char_limit, placeholders, glossary_hits) ==
  (IF char_limit # 0 THEN 3 ELSE 0)
  + (IF placeholders # <<>> THEN 2 ELSE 0)
  + (IF \E k \in DOMAIN placeholders : placeholders[k].type = "angle_tag" THEN 2 ELSE 0)
  + (IF glossary_hits > 1 THEN 1 ELSE 0)
  + (IF Len(Strip(source_text)) < 12 THEN 2 ELSE 0)
(***************************************************************************)
(* Translation memory: tt_core/tm/normalize.py, tm_store.py, tm_search.py. *)
(* tm_entries is a set of rows; timestamps are the seconds of the clock.   *)
(***************************************************************************)
RECURSIVE CollapseFrom(_, _)
\* _WHITESPACE_PATTERN.sub(" ", text): every run of whitespace becomes " "
CollapseFrom(t, i) ==
  LET hits == { j \in i..Len(t) : InClass("space", t[j]) }
  IN IF hits = {} THEN Slice(t, i, Len(t))
     ELSE Slice(t, i, Leftmost(hits) - 1) \o <<" ">>
            \o CollapseFrom(t, RunEnd(t, Leftmost(hits), "space"))

normalize_source_text_keep_case(text) == CollapseFrom(Strip(text), 1)

normalize_source_text(text) == Lower(CollapseFrom(Strip(text), 1))

\* sha256 of the normalized text: the digest is taken to be collision free,
\* so the normalized text stands for it
normalized_source_hash(text) == normalize_source_text(text)

NoRow == [id |-> 0]

\* WHERE project_id, source_locale, target_locale, normalized_source_hash
TMLookup(tm, project_id, source_locale, target_locale, hash) ==
  { r \in tm : /\ r.project_id = project_id
               /\ r.source_locale = source_locale
               /\ r.target_locale = target_locale
               /\ r.normalized_source_hash = hash }

\* ORDER BY updated_at DESC, id DESC LIMIT 1
TMFirst(rows) ==
  IF rows = {} THEN NoRow
  ELSE CHOOSE r \in rows :
         \A o \in rows : \/ o.updated_at < r.updated_at
                         \/ (o.updated_at = r.updated_at /\ o.id <= r.id)

find_exact(tm, project_id, source_locale, target_locale, source_text) ==
  TMFirst(TMLookup(tm, project_id, source_locale, target_locale,
                   normalized_source_hash(source_text)))

\* uuid4(): an id no row has; rows are never compared by id across keys
FreshId(rows) == CHOOSE n \in 1..(Cardinality(rows) + 1) : \A r \in rows : r.id # n

TMInsertOrUpdate(tm, now, existing, row) ==
  IF existing = NoRow
    THEN tm \cup {[row EXCEPT !.id = FreshId(tm), !.created_at = now]}
    ELSE (tm \ {existing})
         \cup {[existing EXCEPT !.source_text = row.source_text,
                                !.target_text = row.target_text,
                                !.origin = row.origin,
                                !.quality_tag = row.quality_tag,
                                !.updated_at = now]}

upsert_tm_entry_by_raw_source(tm, now, project_id, source_locale, target_locale, source_text, target_text, origin, quality_tag) ==
  TMInsertOrUpdate(tm, now,
    TMFirst({ r \in TMLookup(tm, project_id, source_locale, target_locale,
                             normalized_source_hash(source_text)) :
                r.source_text = source_text }),
    [id |-> 0, project_id |-> project_id, source_locale |-> source_locale,
     target_locale |-> target_locale, source_text |-> source_text,
     target_text |-> target_text,
     normalized_source_hash |-> normalized_source_hash(source_text),
     origin |-> origin, created_at |-> now, updated_at |-> now,
     last_used_at |-> 0, use_count |-> 0, quality_tag |-> quality_tag])

upsert_tm_entry(tm, now, project_id, source_locale, target_locale, source_text, target_text, origin, quality_tag) ==
  TMInsertOrUpdate(tm, now,
    find_exact(tm, project_id, source_locale, target_locale, source_text),
    [id |-> 0, project_id |-> project_id, source_locale |-> source_locale,
     target_locale |-> target_locale, source_text |-> source_text,
     target_text |-> target_text,
     normalized_source_hash |-> normalized_source_hash(source_text),
     origin |-> origin, created_at |-> now, updated_at |-> now,
     last_used_at |-> 0, use_count |-> 0, quality_tag |-> quality_tag])

record_tm_use_by_insert(tm, now, tm_id) ==
  tm \cup { [r EXCEPT !.id = FreshId(tm), !.use_count = r.use_count + 1,
                      !.last_used_at = now] : r \in { x \in tm : x.id = tm_id } }

record_tm_use_counting_twice(tm, now, tm_id) ==
  { IF r.id = tm_id
      THEN [r EXCEPT !.use_count = r.use_count + 2, !.last_used_at = now]
      ELSE r : r \in tm }

\* UPDATE tm_entries SET use_count = use_count + 1, last_used_at = now
record_tm_use(tm, now, tm_id) ==
  { IF r.id = tm_id
      THEN [r EXCEPT !.use_count = r.use_count + 1, !.last_used_at = now]
      ELSE r : r \in tm }

(***************************************************************************)
(* The FTS mirror tm_fts and the searches over it: tm_store.py, tm_search.py*)
(* tm_fts is a set of rows, each with the rowid SQLite gave it.            *)
(***************************************************************************)
\* the id of the tm_entries row an upsert of this key inserts or updates
UpsertedTmId(tm, project_id, source_locale, target_locale, source_text) ==
  LET existing == find_exact(tm, project_id, source_locale, target_locale, source_text)
  IN IF existing = NoRow THEN FreshId(tm) ELSE existing.id

\* the rowid of the next INSERT: one above the highest in the table
NextRowid(fts) ==
  IF fts = {} THEN 1
  ELSE 1 + (CHOOSE n \in { r.rowid : r \in fts } : \A r \in fts : r.rowid <= n)

FtsRow(rowid, tm_id, project_id, source_locale, target_locale, source_text, target_text) ==
  [rowid |-> rowid, tm_id |-> tm_id, project_id |-> project_id,
   source_locale |-> source_locale, target_locale |-> target_locale,
   source_text |-> source_text, target_text |-> target_text]

refresh_tm_fts_without_delete(fts, tm_id, project_id, source_locale, target_locale, source_text, target_text) ==
  fts \cup { FtsRow(NextRowid(fts), tm_id, project_id, source_locale, target_locale,
                    source_text, target_text) }

\* the tail of _upsert_tm_entry_on_connection:
\* DELETE FROM tm_fts WHERE tm_id = :tm_id, then INSERT INTO tm_fts
refresh_tm_fts(fts, tm_id, project_id, source_locale, target_locale, source_text, target_text) ==
  LET kept == { r \in fts : r.tm_id # tm_id }
  IN kept \cup { FtsRow(NextRowid(kept), tm_id, project_id, source_locale, target_locale,
                        source_text, target_text) }

\* the tokens _sanitize_fts_query joins with OR: the runs of [A-Za-z0-9]
\* of the text, lower-cased, each once
_sanitize_fts_query(query_text) ==
  { Lower(SubSeq(query_text, tk.start, tk.end - 1)) : tk \in AlnumTokens(query_text, {}) }

\* tm_fts MATCH "t1" OR "t2" ...: some indexed text column of the row holds
\* one of the tokens, letter case folded
FtsMatch(row, tokens) ==
  (_sanitize_fts_query(row.source_text) \cup _sanitize_fts_query(row.target_text))
     \cap tokens # {}

\* search_fts: the rows of the scope that match the query, or every row of
\* the scope when the query has no token. The LIMIT of the callers modelled
\* (at least 50) is above the number of rows a state holds, so the order
\* of the rows decides nothing.
search_fts(fts, project_id, source_locale, target_locale, query_text) ==
  { r \in fts : /\ r.project_id = project_id
                /\ r.source_locale = source_locale
                /\ r.target_locale = target_locale
                /\ \/ _sanitize_fts_query(query_text) = {}
                   \/ FtsMatch(r, _sanitize_fts_query(query_text)) }

\* max(1, int(limit))
normalized_limit(limit) == IF limit > 1 THEN limit ELSE 1

\* _similarity_score is rapidfuzz's token_set_ratio or, without rapidfuzz,
\* difflib's ratio: a number from 0 to 100 that is 100 for equal texts and
\* otherwise whatever the installed scorer computes
SimilarityScores == {91, 95}

ScoreChoices(candidates, normalized_source) ==
  { f \in [ { c.tm_id : c \in candidates } -> SimilarityScores \cup {100} ] :
      \A c \in candidates :
        normalize_source_text(c.source_text) = normalized_source => f[c.tm_id] = 100 }

\* key=lambda item: (-item.score, item.tm_id)
HitBefore(a, b) == a.score > b.score \/ (a.score = b.score /\ a.tm_id < b.tm_id)

RECURSIVE SortedHits(_)
SortedHits(hits) ==
  IF hits = {} THEN <<>>
  ELSE LET first == CHOOSE h \in hits : \A o \in hits \ {h} : HitBefore(h, o)
       IN <<first>> \o SortedHits(hits \ {first})

ScoredHits(candidates, score) ==
  { [tm_id |-> c.tm_id, source_text |-> c.source_text, target_text |-> c.target_text,
     score |-> score[c.tm_id]] : c \in candidates }

search_fuzzy_untruncated(candidates, score, limit) ==
  SortedHits(ScoredHits(candidates, score))

\* search_fuzzy, given the candidates of search_fts and their scores:
\* scored.sort(...); return scored[:normalized_limit]
search_fuzzy(candidates, score, limit) ==
  SubSeq(SortedHits(ScoredHits(candidates, score)), 1,
         IF Cardinality(candidates) < normalized_limit(limit)
           THEN Cardinality(candidates) ELSE normalized_limit(limit))
(***************************************************************************)
(* Model providers: tt_core/llm/provider_mock.py and the callables and     *)
(* remote models behind LLMProvider.generate, whose output is any text.    *)
(***************************************************************************)
TaskChars(task) ==
  CASE task = "de" -> <<"d", "e">>
    [] task = "fr" -> <<"f", "r">>
    [] task = "reviewer" -> <<"r", "e", "v", "i", "e", "w", "e", "r">>
    [] OTHER -> <<"t", "r", "a", "n", "s", "l", "a", "t", "o", "r">>

\* the text a provider of the given kind returns for a prompt; tokenized is
\* the token-carrying source the prompt was built from, literal the text of
\* its first placeholder
ProviderOutput(kind, task, prompt, tokenized, literal) ==
  CASE kind = "mock" -> <<"[">> \o TaskChars(task) \o <<"]", " ">> \o (IF Len(prompt) <= 200 THEN prompt ELSE SubSeq(prompt, 1, 200))
    [] kind = "keep" -> prompt
    [] kind = "restore" -> tokenized
    [] kind = "drop_ph" -> Replace(prompt, PHToken(1), <<>>)
    [] kind = "drop_term" -> Replace(prompt, TermToken(1), <<>>)
    [] kind = "literal_ph" -> Replace(prompt, PHToken(1), literal)
    [] kind = "literal_term" -> Replace(prompt, TermToken(1), <<"G", "e", "h">>)
    [] kind = "invent_term" -> prompt \o TermToken(7)
    [] OTHER -> <<"x">>

\* provider_name of the resolved provider
ProviderName(kind) == IF kind = "mock" THEN "mock" ELSE "openai"

\* the providers the policy selected and _resolve_provider replaced by mock
\* for want of a credential, per task ("none": no replacement)
NoFallback == [translator |-> "none", reviewer |-> "none"]

\* _ResolvedProvider
ResolvedProvider(kind, fallback_from) ==
  [provider_name |-> ProviderName(kind), fallback_from |-> fallback_from]

\* reviewer_provider=None
NoProvider == [provider_name |-> "none", fallback_from |-> "none"]

\* the model info of a candidate; "none" and -1 stand for an absent key
ModelInfo(provider) ==
  [provider |-> provider, translator_provider |-> "none", risk_score |-> -1,
   fallback_from |-> "none", translator_fallback_from |-> "none"]

_model_info_without_fallback(translator_provider, reviewer_provider, risk_score) ==
  IF reviewer_provider = NoProvider
    THEN [ModelInfo(translator_provider.provider_name) EXCEPT !.risk_score = risk_score]
    ELSE [ModelInfo(reviewer_provider.provider_name) EXCEPT
            !.translator_provider = translator_provider.provider_name,
            !.risk_score = risk_score]

_model_info(translator_provider, reviewer_provider, risk_score) ==
  IF reviewer_provider = NoProvider
    THEN [ModelInfo(translator_provider.provider_name) EXCEPT
            !.risk_score = risk_score,
            !.fallback_from = translator_provider.fallback_from]
    ELSE [ModelInfo(reviewer_provider.provider_name) EXCEPT
            !.translator_provider = translator_provider.provider_name,
            !.risk_score = risk_score,
            !.translator_fallback_from = translator_provider.fallback_from,
            !.fallback_from = reviewer_provider.fallback_from]

(***************************************************************************)
(* _generate_translation_candidate: tt_core/jobs/job_service.py            *)
(***************************************************************************)
NoHit == [tm_id |-> 0]

\* the result of the branch taken, before QA: the text still carrying the
\* tokens the last model pass returned (NoTokens on a TM hit)
\* tm_id is the TM row the branch consumed, fuzzy_score the score of the
\* best hit search_fuzzy returned (0 without a hit or without the search)
Generated(candidate_text, output, candidate_type, score, model_info, tm_id, fuzzy_score) ==
  [candidate_text |-> candidate_text, output |-> output,
   candidate_type |-> candidate_type, score |-> score, model_info |-> model_info,
   tm_id |-> tm_id, fuzzy_score |-> fuzzy_score]

FirstLiteral(protected_source) ==
  IF protected_source.placeholders = <<>> THEN <<>>
  ELSE protected_source.placeholders[1].value

\* translated_with_term_tokens
TranslatorOutput(target_locale, protected_source, enforced, translator_kind) ==
  ProviderOutput(translator_kind,
                 IF translator_kind = "mock" THEN target_locale ELSE "translator",
                 enforced.text_with_term_tokens, enforced.text_with_term_tokens,
                 FirstLiteral(protected_source))

\* the output of the pass that counts: the reviewer's when the risk score
\* calls for review, else the translator's
LastPassOutput(reviewed, protected_source, enforced, translated_with_term_tokens, reviewer_kind) ==
  IF reviewed
    THEN ProviderOutput(reviewer_kind, "reviewer", translated_with_term_tokens,
                        enforced.text_with_term_tokens, FirstLiteral(protected_source))
    ELSE translated_with_term_tokens

GenerateBranch_above_threshold(risk_score, protected_source, enforced, exact_match, fuzzy, output, translator_provider, reviewer_provider) ==
  IF exact_match # NoRow
    THEN Generated(exact_match.target_text, NoTokens, "tm_exact", 100, ModelInfo("tm"),
                   exact_match.id, 0)
  ELSE IF fuzzy # NoHit /\ fuzzy.score > TM_FUZZY_THRESHOLD
    THEN Generated(fuzzy.target_text, NoTokens, "tm_fuzzy", fuzzy.score, ModelInfo("tm"),
                   fuzzy.tm_id, fuzzy.score)
  ELSE Generated(reinject(protected_source,
                          reinject_term_tokens(output, enforced.expected_enforcements)),
                 output,
                 IF risk_score >= REVIEW_RISK_THRESHOLD THEN "llm_reviewed" ELSE "llm_draft",
                 100,
                 _model_info(translator_provider,
                             IF risk_score >= REVIEW_RISK_THRESHOLD THEN reviewer_provider
                             ELSE NoProvider,
                             risk_score),
                 0, IF fuzzy = NoHit THEN 0 ELSE fuzzy.score)

GenerateBranch(risk_score, protected_source, enforced, exact_match, fuzzy, output, translator_provider, reviewer_provider) ==
  IF exact_match # NoRow
    THEN Generated(exact_match.target_text, NoTokens, "tm_exact", 100, ModelInfo("tm"),
                   exact_match.id, 0)
  ELSE IF fuzzy # NoHit /\ fuzzy.score >= TM_FUZZY_THRESHOLD
    THEN Generated(fuzzy.target_text, NoTokens, "tm_fuzzy", fuzzy.score, ModelInfo("tm"),
                   fuzzy.tm_id, fuzzy.score)
  ELSE Generated(reinject(protected_source,
                          reinject_term_tokens(output, enforced.expected_enforcements)),
                 output,
                 IF risk_score >= REVIEW_RISK_THRESHOLD THEN "llm_reviewed" ELSE "llm_draft",
                 100,
                 _model_info(translator_provider,
                             IF risk_score >= REVIEW_RISK_THRESHOLD THEN reviewer_provider
                             ELSE NoProvider,
                             risk_score),
                 0, IF fuzzy = NoHit THEN 0 ELSE fuzzy.score)

\* _GeneratedCandidate with the QA issues of the final text; tm is the
\* memory after record_tm_use; translated and output are what the
\* translator and the last model pass returned (NoTokens on a TM hit)
GenerateFinish(tm, now, source_text, enforced, translated, g) ==
  [candidate_text |-> g.candidate_text, candidate_type |-> g.candidate_type,
   score |-> g.score, model_info |-> g.model_info,
   qa_issues |-> _collect_qa_issues(source_text, g.candidate_text,
                                    enforced.expected_enforcements, g.output),
   tm |-> IF g.tm_id = 0 THEN tm ELSE record_tm_use(tm, now, g.tm_id),
   translated |-> IF g.tm_id = 0 THEN translated ELSE NoTokens,
   tm_id |-> g.tm_id, fuzzy_score |-> g.fuzzy_score,
   output |-> g.output, expected_enforcements |-> enforced.expected_enforcements]

GenerateTranslated(tm, now, source_text, risk_score, protected_source, enforced, exact_match, fuzzy, translated, translator_kind, reviewer_kind, fallback) ==
  GenerateFinish(tm, now, source_text, enforced, translated,
    GenerateBranch(risk_score, protected_source, enforced, exact_match, fuzzy,
      LastPassOutput(risk_score >= REVIEW_RISK_THRESHOLD, protected_source, enforced,
                     translated, reviewer_kind),
      ResolvedProvider(translator_kind, fallback.translator),
      ResolvedProvider(reviewer_kind, fallback.reviewer)))

GenerateWith(tm, now, source_text, target_locale, risk_score, protected_source, enforced, exact_match, fuzzy, translator_kind, reviewer_kind, fallback) ==
  GenerateTranslated(tm, now, source_text, risk_score, protected_source, enforced,
    exact_match, fuzzy,
    TranslatorOutput(target_locale, protected_source, enforced, translator_kind),
    translator_kind, reviewer_kind, fallback)

GenerateEnforced(tm, now, project_id, source_locale, source_text, target_locale, char_limit, protected_source, enforced, fuzzy, translator_kind, reviewer_kind, fallback) ==
  GenerateWith(tm, now, source_text, target_locale,
    _compute_risk_score(source_text, char_limit, protected_source.placeholders,
                        Len(enforced.expected_enforcements)),
    protected_source, enforced,
    find_exact(tm, project_id, source_locale, target_locale, source_text),
    fuzzy, translator_kind, reviewer_kind, fallback)

GenerateProtected(tm, now, project_id, source_locale, source_text, target_locale, char_limit, glossary_terms, protected_source, fuzzy, translator_kind, reviewer_kind, fallback) ==
  GenerateEnforced(tm, now, project_id, source_locale, source_text, target_locale,
    char_limit, protected_source,
    enforce_must_use(protected_source.protected, glossary_terms),
    fuzzy, translator_kind, reviewer_kind, fallback)

_generate_translation_candidate(tm, now, project_id, source_locale, source_text, target_locale, char_limit, glossary_terms, fuzzy, translator_kind, reviewer_kind, fallback) ==
  GenerateProtected(tm, now, project_id, source_locale, source_text, target_locale,
    char_limit, glossary_terms, protect_text(source_text), fuzzy,
    translator_kind, reviewer_kind, fallback)
(***************************************************************************)
(* Review store: tt_core/review/review_service.py                          *)
(***************************************************************************)
\* ORDER BY generated_at DESC, id DESC LIMIT 1 over the rows at the given
\* positions of one (segment, locale): the position of the first, or 0
LatestAmong(rows, positions) ==
  IF positions = {} THEN 0
  ELSE CHOOSE p \in positions :
         \A q \in positions : \/ rows[q].generated_at < rows[p].generated_at
                              \/ (rows[q].generated_at = rows[p].generated_at /\ q <= p)

InsertAt(rows, position, row) ==
  SubSeq(rows, 1, position - 1) \o <<row>> \o SubSeq(rows, position, Len(rows))

CandidateRow(candidate_text, candidate_type, score, model_info, generated_at) ==
  [candidate_text |-> candidate_text, candidate_type |-> candidate_type,
   score |-> score, model_info |-> model_info, generated_at |-> generated_at]

\* the rows of one (segment, locale) after the upsert; position is the rank
\* the new uuid4 id takes among the ids already there
UpsertCandidateRow(rows, position, existing, row) ==
  IF existing = 0 THEN InsertAt(rows, position, row)
  ELSE [rows EXCEPT ![existing] = [row EXCEPT !.candidate_type = rows[existing].candidate_type]]

_upsert_candidate_always_insert(rows, position, candidate_text, candidate_type, score, model_info, generated_at) ==
  InsertAt(rows, position,
           CandidateRow(candidate_text, candidate_type, score, model_info, generated_at))

_upsert_candidate_on_connection(rows, position, candidate_text, candidate_type, score, model_info, generated_at) ==
  UpsertCandidateRow(rows, position,
    LatestAmong(rows, { p \in DOMAIN rows : rows[p].candidate_type = candidate_type }),
    CandidateRow(candidate_text, candidate_type, score, model_info, generated_at))

\* get_latest_candidate: the row, or NoRow
get_latest_candidate(rows) ==
  IF rows = <<>> THEN NoRow ELSE rows[LatestAmong(rows, DOMAIN rows)]

_delete_candidate_types_none(rows, candidate_types) == rows

\* DELETE FROM translation_candidates WHERE ... candidate_type IN types
_delete_candidate_types(rows, candidate_types) ==
  SelectSeq(rows, LAMBDA r : r.candidate_type \notin candidate_types)

\* INSERT ... ON CONFLICT(segment_id, target_locale) DO UPDATE
ApprovedUpsert(approved, existing, row) ==
  IF existing = {}
    THEN approved \cup {[row EXCEPT !.id = FreshId(approved)]}
    ELSE { IF r \in existing
             THEN [r EXCEPT !.final_text = row.final_text, !.status = row.status,
                            !.approved_by = row.approved_by,
                            !.approved_at = row.approved_at]
             ELSE r : r \in approved }

ApprovedInsertAlways(approved, now, segment_id, target_locale, final_text) ==
  ApprovedUpsert(approved, {},
    [id |-> 0, segment_id |-> segment_id, target_locale |-> target_locale,
     final_text |-> final_text, status |-> "approved", approved_by |-> "me",
     approved_at |-> now])

\* the approved_translations table after upsert_approved_translation
ApprovedAfter(approved, now, segment_id, target_locale, final_text) ==
  ApprovedUpsert(approved,
    { r \in approved : r.segment_id = segment_id /\ r.target_locale = target_locale },
    [id |-> 0, segment_id |-> segment_id, target_locale |-> target_locale,
     final_text |-> final_text, status |-> "approved", approved_by |-> "me",
     approved_at |-> now])

(***************************************************************************)
(* QA flag storage: tt_core/jobs/job_service.py                            *)
(***************************************************************************)
_replace_qa_flags_keeping_old(flags, issues) == flags \o issues

\* the flags of one (segment, locale) after _replace_qa_flags
_replace_qa_flags(flags, issues) == issues

_delete_qa_flag_types(flags, flag_types) ==
  SelectSeq(flags, LAMBDA f : f.issue_type \notin flag_types)

CHANGE_PROPOSED_CANDIDATE_TYPES == {"change_proposed", "change_flagged_proposed"}
CHANGE_QA_FLAG_TYPES == {"stale_source_change", "impact_flagged"}

\* list_review_rows, the proposed candidate of one (segment, locale): ctc,
\* the latest change proposal, else tc, the latest candidate of any type,
\* unless that one is the import baseline
ReviewProposed(rows) ==
  LET ctc == LatestAmong(rows, { p \in DOMAIN rows :
                                   rows[p].candidate_type
                                     \in {"change_proposed", "change_flagged_proposed"} })
      tc == LatestAmong(rows, DOMAIN rows)
  IN IF ctc # 0 THEN rows[ctc]
     ELSE IF tc # 0 /\ rows[tc].candidate_type # "existing_target" THEN rows[tc]
     ELSE NoRow
(***************************************************************************)
(* Change classification: tt_core/jobs/job_service.py                      *)
(***************************************************************************)
\* " ".join(value.split())
_normalize_change_text(value) == CollapseFrom(Strip(value), 1)

\* stand-ins for the four typographic quotation marks of
\* _CHANGE_PUNCTUATION_PATTERN
CurlyQuotes == {"ldquo", "rdquo", "lsquo", "rsquo"}

\* _CHANGE_PUNCTUATION_PATTERN.sub(" ", value), then normalized: a run of
\* punctuation and the blanks around it collapse to one blank either way
_strip_change_punctuation(value) ==
  _normalize_change_text(
    [k \in DOMAIN value |->
       IF value[k] \in CurlyQuotes \cup
            {".", "!", "?", ":", ";", ",", "'", "\"", "(", ")", "[", "]", "{", "}"}
         THEN " " ELSE value[k]])

\* _relative_delta(old_value, new_value) > percent / 100
RelativeDeltaExceeds(old_value, new_value, percent) ==
  IF old_value <= 0 THEN new_value > 0 /\ percent < 100
  ELSE 100 * (IF new_value >= old_value THEN new_value - old_value
              ELSE old_value - new_value) > percent * old_value

\* [(item.type, item.value) for item in placeholders]
TypedValuesOf(phs) == [k \in DOMAIN phs |-> <<phs[k].type, phs[k].value>>]

_change_placeholder_signature(value) == TypedValuesOf(extract_placeholders(value))

\* len(normalized.split())
WordCount(normalized) ==
  IF normalized = <<>> THEN 0
  ELSE 1 + Cardinality({ k \in DOMAIN normalized : normalized[k] = " " })

ChangeClassification(decision, confidence, reason) ==
  [decision |-> decision, confidence |-> confidence, reason |-> reason]

ClassifyPunctuationFirst(old, new, normalized_old, normalized_new) ==
  IF normalized_old = normalized_new
    THEN ChangeClassification("KEEP", 98, "whitespace")
  ELSE IF _strip_change_punctuation(normalized_old) = _strip_change_punctuation(normalized_new)
    THEN ChangeClassification("KEEP", 92, "punctuation")
  ELSE IF _change_placeholder_signature(old) # _change_placeholder_signature(new)
    THEN ChangeClassification("FLAG", 25, "placeholders")
  ELSE IF RelativeDeltaExceeds(Len(normalized_old), Len(normalized_new), 30)
    THEN ChangeClassification("UPDATE", 78, "length")
  ELSE IF RelativeDeltaExceeds(WordCount(normalized_old), WordCount(normalized_new), 20)
    THEN ChangeClassification("UPDATE", 78, "words")
  ELSE ChangeClassification("FLAG", 45, "manual")

ClassifyNormalized(old, new, normalized_old, normalized_new) ==
  IF normalized_old = normalized_new
    THEN ChangeClassification("KEEP", 98, "whitespace")
  ELSE IF _change_placeholder_signature(old) # _change_placeholder_signature(new)
    THEN ChangeClassification("FLAG", 25, "placeholders")
  ELSE IF _strip_change_punctuation(normalized_old) = _strip_change_punctuation(normalized_new)
    THEN ChangeClassification("KEEP", 92, "punctuation")
  ELSE IF RelativeDeltaExceeds(Len(normalized_old), Len(normalized_new), 30)
    THEN ChangeClassification("UPDATE", 78, "length")
  ELSE IF RelativeDeltaExceeds(WordCount(normalized_old), WordCount(normalized_new), 20)
    THEN ChangeClassification("UPDATE", 78, "words")
  ELSE ChangeClassification("FLAG", 45, "manual")

classify_change(old, new) ==
  ClassifyNormalized(old, new, _normalize_change_text(old), _normalize_change_text(new))

(***************************************************************************)
(* Specification SpecChange: classify_change over pairs of source texts    *)
(***************************************************************************)
\* number of pieces an argument of classify_change is assembled from
MaxChangePieces == 2

\* fragments of the arguments: letters, a digit, a blank, punctuation and
\* two placeholders
ChangePieces ==
  { <<"a">>, <<"b">>, <<"0">>, <<" ">>, <<"!">>, <<"%", "s">>, <<"{", "0", "}">> }

RECURSIVE ChangeStrings(_)
ChangeStrings(n) ==
  IF n = 0 THEN { <<>> }
  ELSE ChangeStrings(n - 1) \cup
       { p \o s : p \in ChangePieces, s \in ChangeStrings(n - 1) }

\* n words "a", one blank between two of them
Words(n) == [k \in 1..(2 * n - 1) |-> IF k % 2 = 1 THEN "a" ELSE " "]

\* one word of n letters
Letters(n) == [k \in 1..n |-> "a"]

\* texts whose lengths and word counts lie on both sides of the 30% and the
\* 20% threshold
ThresholdTexts ==
  { Letters(7), Letters(10), Letters(13), Letters(14), Words(4), Words(5), Words(6),
    <<"a", "a", "a", "a", " ", "a">>, <<"a", "a", "a", "a", "b">>, Letters(5) }

ChangeTexts == ChangeStrings(MaxChangePieces) \cup ThresholdTexts

InitChange ==
  /\ fw = FwIdle
  /\ \E old \in ChangeTexts, new \in ChangeTexts :
       change = [NoChange EXCEPT !.pc = "called", !.old = old, !.new = new]
  /\ EmptyStore

ChangeClassify ==
  /\ change.pc = "called"
  /\ change' = [change EXCEPT !.pc = "returned",
                              !.classification = classify_change(change.old, change.new)]
  /\ UNCHANGED <<fw, storeVars>>

NextChange == ChangeClassify

SpecChange == InitChange /\ [][NextChange]_vars
(***************************************************************************)
(* Inputs                                                                  *)
(***************************************************************************)
\* a missing cell or column (None)
NoText == <<"None">>

SheetRow(source_text, source_text_old, target_text, char_limit) ==
  [source_text |-> source_text, source_text_old |-> source_text_old,
   target_text |-> target_text, char_limit |-> char_limit]

TextGo == <<"G", "o", " ", "%", "s">>
TextGoSpaced == <<"g", "o", " ", " ", "%", "s">>
TextHi == <<"H", "i">>
TextAlt == <<"A", "l", "t">>
TextGeh == <<"G", "e", "h", " ", "%", "s">>
TextLos == <<"L", "o", "s">>

\* the must-use terms load_must_use_terms returns for every locale
GlossaryTerms ==
  <<[source_term |-> <<"G", "o">>, target_term |-> <<"G", "e", "h">>,
     match_type |-> "whole_token", case_sensitive |-> FALSE,
     allow_compounds |-> TRUE, compound_strategy |-> "hyphenate",
     negative_patterns |-> <<>>]>>

\* the file the store specification imports first: an unchanged and a
\* punctuation-changed row
FirstSheet ==
  <<SheetRow(TextGo, NoText, TextAlt, 0),
    SheetRow(TextHi, <<"H", "i", "!">>, NoText, 0)>>

\* and the files it imports after that: a row whose source grew and which
\* normalizes to the source of the first row
NextSheet == <<SheetRow(TextGoSpaced, <<"%", "s">>, NoText, 0)>>

\* a file whose first row gained a placeholder and whose second row differs
\* from its old source in the margins only
MarginSheet ==
  <<SheetRow(TextGo, <<"G", "o">>, NoText, 0),
    SheetRow(TextHi, <<" ", "H", "i", " ">>, NoText, 0)>>

\* the files the job specification imports
JobSheets == {FirstSheet, NextSheet, MarginSheet}

\* the files the pipeline specification imports: sources with and without
\* placeholder and glossary term, with a character limit, with an old source
PipelineSheets ==
  { <<SheetRow(TextGo, NoText, NoText, 0)>>,
    <<SheetRow(TextGo, NoText, NoText, 20)>>,
    <<SheetRow(TextHi, NoText, NoText, 0)>>,
    <<SheetRow(TextGo, <<"%", "s">>, NoText, 20), SheetRow(TextHi, NoText, NoText, 0)>> }

ApprovalTexts == {TextGeh, TextLos}

(***************************************************************************)
(* Clock                                                                   *)
(***************************************************************************)
MaxClock == 2

\* create_job and the update_job_status(running) that follows it read the
\* same second
Tick ==
  /\ clock < MaxClock
  /\ run.pc # "queued"
  /\ clock' = clock + 1
  /\ UNCHANGED <<fw, change, schema, assets, schema_profiles, import_summary, lp_copy, glossary, tm_fts, search, segments, translation_candidates, qa_flags,
                 approved_translations, approvals, tm_entries, jobs, run>>

(***************************************************************************)
(* import_asset: tt_core/importers/import_service.py                       *)
(***************************************************************************)
\* the assets that have segments
AssetIds == { s.asset_id : s \in segments }

\* the columns of a row-view are named after the cells of SheetRow
SheetColumns == {"source_text", "source_text_old", "target_text", "char_limit"}

\* row.get(column): None for no column
Cell(row, column) ==
  CASE column = "source_text" -> row.source_text
    [] column = "source_text_old" -> row.source_text_old
    [] column = "target_text" -> row.target_text
    [] OTHER -> NoText

\* a row label of the dataframe: an integer or some other label
RowName(integral, value) == [integral |-> integral, value |-> value]

\* pandas' default index: the positions, from 0
RangeIndex(rows) == [p \in DOMAIN rows |-> RowName(TRUE, p - 1)]

\* the row-view: dataframe.columns, the row labels and the rows
Frame(columns, names, rows) == [columns |-> columns, names |-> names, rows |-> rows]

\* ColumnMapping; "none" stands for None or a blank name (the cn and the
\* context columns are checked like the key column and stored nowhere here)
Mapping(mode, source_new, source_old, target, target_locale, key, char_limit) ==
  [mode |-> mode, source_new |-> source_new, source_old |-> source_old,
   target |-> target, target_locale |-> target_locale, key |-> key,
   char_limit |-> char_limit]

\* _normalize_mode of a stripped, lower-cased value
_normalize_mode(value) ==
  CASE value \in {"none", "lp", "lp (single source)"} -> "lp"
    [] value \in {"change_source_update", "change file (old/new source)"} ->
         "change_source_update"
    [] OTHER -> "unsupported"

_validate_mapping_columns_without_target_rule(mapping, available) ==
  IF mapping.source_new = "none" THEN "source_new required"
  ELSE IF mapping.source_new \notin available THEN "source_new missing"
  ELSE IF _normalize_mode(mapping.mode) = "change_source_update" /\ mapping.source_old = "none"
    THEN "source_old required"
  ELSE IF mapping.source_old # "none" /\ mapping.source_old \notin available
    THEN "source_old missing"
  ELSE IF \E optional \in {mapping.target, mapping.key, mapping.char_limit} :
            optional # "none" /\ optional \notin available
    THEN "column missing"
  ELSE "none"

\* the ValueError import_asset raises before it opens the database, or "none"
_validate_mapping_columns(mapping, available) ==
  IF mapping.source_new = "none" THEN "source_new required"
  ELSE IF mapping.source_new \notin available THEN "source_new missing"
  ELSE IF _normalize_mode(mapping.mode) = "change_source_update" /\ mapping.source_old = "none"
    THEN "source_old required"
  ELSE IF mapping.source_old # "none" /\ mapping.source_old \notin available
    THEN "source_old missing"
  ELSE IF mapping.target_locale # "none" /\ mapping.target = "none" THEN "target required"
  ELSE IF \E optional \in {mapping.target, mapping.key, mapping.char_limit} :
            optional # "none" /\ optional \notin available
    THEN "column missing"
  ELSE "none"

ImportError(file_type, frame, mapping) ==
  IF file_type \notin {"xlsx", "csv"} THEN "unsupported file_type"
  ELSE IF _normalize_mode(mapping.mode) = "unsupported" THEN "unsupported mode"
  ELSE _validate_mapping_columns(mapping, frame.columns)

\* _to_optional_text: a blank cell is None
OptionalText(value) == IF value = NoText \/ Strip(value) = <<>> THEN NoText ELSE value

\* the positions (from 1) of the rows whose source cell is not blank
\* (_to_required_text), in order
KeptPositions(frame, mapping) ==
  SelectSeq([p \in DOMAIN frame.rows |-> p],
            LAMBDA p : OptionalText(Cell(frame.rows[p], mapping.source_new)) # NoText)

_compute_row_index_by_position(name, position) == position + 2

\* _compute_row_index(row.name, position) for the row at position + 1
_compute_row_index(name, position) ==
  IF name.integral THEN name.value + 2 ELSE position + 2

SegmentRowsOf(asset_id, project_id, source_locale, frame, mapping, kept) ==
  { [id |-> <<asset_id, k>>, asset_id |-> asset_id, project_id |-> project_id,
     row_index |-> _compute_row_index(frame.names[kept[k]], kept[k] - 1),
     source_locale |-> source_locale,
     source_text |-> Cell(frame.rows[kept[k]], mapping.source_new),
     source_text_old |-> IF mapping.source_old = "none" THEN NoText
                         ELSE OptionalText(Cell(frame.rows[kept[k]], mapping.source_old)),
     char_limit |-> IF mapping.char_limit = "none" THEN 0
                    ELSE frame.rows[kept[k]].char_limit,
     placeholders_json |-> <<>>] : k \in DOMAIN kept }

\* baseline candidates: one existing_target row per new segment with a target
BaselinesOf(asset_id, frame, mapping, kept, generated_at) ==
  [key \in SegmentKeys |->
     IF /\ mapping.target # "none" /\ mapping.target_locale # "none"
        /\ key[1][1] = asset_id /\ key[1][2] \in DOMAIN kept /\ key[2] = mapping.target_locale
        /\ OptionalText(Cell(frame.rows[kept[key[1][2]]], mapping.target)) # NoText
       THEN <<CandidateRow(Cell(frame.rows[kept[key[1][2]]], mapping.target),
                           "existing_target", 100, ModelInfo("import"), generated_at)>>
       ELSE translation_candidates[key]]

\* the call returned nothing yet
NoSummary ==
  [asset_id |-> 0, imported_rows |-> 0, skipped_rows |-> 0, error |-> "none",
   file_type |-> "none",
   frame |-> Frame({}, <<>>, <<>>),
   mapping |-> Mapping("none", "none", "none", "none", "none", "none", "none")]

\* ImportSummary, with the arguments of the call
ImportSummary(asset_id, file_type, frame, mapping, kept) ==
  [asset_id |-> asset_id, imported_rows |-> Len(kept),
   skipped_rows |-> Len(frame.rows) - Len(kept), error |-> "none",
   file_type |-> file_type,
   frame |-> frame, mapping |-> mapping]

\* schema_profiles is unique on (project_id, signature); the signature is
\* taken of the file type, the sheet name and the columns
SchemaProfileUpsert(profiles, file_type, frame, mapping) ==
  { p \in profiles : p.signature # <<file_type, frame.columns>> }
    \cup {[signature |-> <<file_type, frame.columns>>, mapping |-> mapping]}

ImportRaise(error, file_type, frame, mapping) ==
  /\ import_summary' = [NoSummary EXCEPT !.error = error, !.file_type = file_type,
                                         !.frame = frame, !.mapping = mapping]
  /\ UNCHANGED <<assets, schema_profiles, segments, translation_candidates>>

ImportWrite(asset_id, file_type, frame, mapping, kept) ==
  /\ assets' = assets \cup {[id |-> asset_id, asset_type |-> file_type]}
  /\ segments' = segments \cup SegmentRowsOf(asset_id, "p1", "en", frame, mapping, kept)
  /\ translation_candidates' = BaselinesOf(asset_id, frame, mapping, kept, clock)
  /\ schema_profiles' = SchemaProfileUpsert(schema_profiles, file_type, frame, mapping)
  /\ import_summary' = ImportSummary(asset_id, file_type, frame, mapping, kept)

ImportAsset(file_types, frames, mappings) ==
  /\ ~Busy
  /\ run.calls < MaxCalls
  /\ Cardinality(assets) < MaxAssets
  /\ \E file_type \in file_types, frame \in frames, mapping \in mappings :
       IF ImportError(file_type, frame, mapping) # "none"
         THEN ImportRaise(ImportError(file_type, frame, mapping), file_type, frame, mapping)
         ELSE ImportWrite(Cardinality(assets) + 1, file_type, frame,
                          [mapping EXCEPT !.mode = _normalize_mode(@)],
                          KeptPositions(frame, mapping))
  /\ run' = [run EXCEPT !.calls = @ + 1]
  /\ UNCHANGED <<fw, change, schema, lp_copy, glossary, tm_fts, search, clock, qa_flags, approved_translations, approvals,
                 tm_entries, jobs>>

\* the import of a workbook sheet with every column mapped
SheetFrames(sheets) == { Frame(SheetColumns, RangeIndex(sheet), sheet) : sheet \in sheets }

SheetMappings(target_locales) ==
  { Mapping("lp", "source_text", "source_text_old", "target_text", target_locale,
            "none", "char_limit") : target_locale \in target_locales }

import_asset(sheets, target_locales) ==
  ImportAsset({"xlsx"}, SheetFrames(sheets), SheetMappings(target_locales))

(***************************************************************************)
(* upsert_approved_translation, upsert_candidate:                          *)
(* tt_core/review/review_service.py                                        *)
(***************************************************************************)
SegmentOf(segment_id) == CHOOSE s \in segments : s.id = segment_id

upsert_approved_translation(target_locales, final_texts) ==
  /\ ~Busy
  /\ run.calls < MaxCalls
  /\ \E s \in segments, target_locale \in target_locales, final_text \in final_texts :
       /\ approved_translations' =
            ApprovedAfter(approved_translations, clock, s.id, target_locale, final_text)
       /\ tm_entries' =
            upsert_tm_entry(tm_entries, clock, s.project_id, s.source_locale,
                            target_locale, s.source_text, final_text, "approved", "trusted")
       /\ tm_fts' =
            refresh_tm_fts(tm_fts,
                           UpsertedTmId(tm_entries, s.project_id, s.source_locale,
                                        target_locale, s.source_text),
                           s.project_id, s.source_locale, target_locale, s.source_text,
                           final_text)
       /\ approvals' = Append(approvals, [segment_id |-> s.id, target_locale |-> target_locale,
                                          final_text |-> final_text])
  /\ run' = [run EXCEPT !.calls = @ + 1]
  /\ UNCHANGED <<fw, change, schema, assets, schema_profiles, import_summary, lp_copy, glossary, search, clock, segments, translation_candidates, qa_flags, jobs>>

\* a reviewer's edit stored from the review screen
upsert_candidate(target_locales, texts) ==
  /\ ~Busy
  /\ run.calls < MaxCalls
  /\ \E s \in segments, target_locale \in target_locales, candidate_text \in texts :
       \E position \in 1..(Len(translation_candidates[<<s.id, target_locale>>]) + 1) :
         translation_candidates' =
           [translation_candidates EXCEPT ![<<s.id, target_locale>>] =
              _upsert_candidate_on_connection(@, position, candidate_text, "edited",
                                              100, ModelInfo("human"), clock)]
  /\ run' = [run EXCEPT !.calls = @ + 1]
  /\ UNCHANGED <<fw, change, schema, assets, schema_profiles, import_summary, lp_copy, glossary, tm_fts, search, clock, segments, qa_flags, approved_translations, approvals, tm_entries, jobs>>
(***************************************************************************)
(* Jobs: tt_core/jobs/job_service.py.  A run is create_job, the switch to  *)
(* running and the resolution of the providers, then one transaction over  *)
(* the segments of the asset, then the final status.                       *)
(***************************************************************************)
JobTypes == {"mock_translate", "change_variant_a", "change_variant_b"}

\* a jobs row as create_job inserts it; 0 stands for NULL
JobRow(job_type, asset_id, target_locale, created_at) ==
  [job_type |-> job_type, asset_id |-> asset_id, target_locale |-> target_locale,
   status |-> "queued", created_at |-> created_at, started_at |-> 0,
   finished_at |-> 0, summary |-> "none", summary_counts |-> NoCounts]

update_job_status_without_finish(job, now, status, summary, set_started_at, set_finished_at) ==
  [job EXCEPT !.status = status, !.summary = summary,
     !.started_at = IF set_started_at /\ job.started_at = 0 THEN now ELSE job.started_at]

\* update_job_status
update_job_status(job, now, status, summary, set_started_at, set_finished_at) ==
  [job EXCEPT !.status = status, !.summary = summary,
              !.started_at = IF set_started_at /\ job.started_at = 0 THEN now
                             ELSE job.started_at,
              !.finished_at = IF set_finished_at THEN now ELSE job.finished_at]

\* the first step of a run_*_job call
create_job(job_types, target_locales) ==
  /\ ~Busy
  /\ run.calls < MaxCalls
  /\ \E job_type \in job_types, asset_id \in AssetIds, target_locale \in target_locales :
       jobs' = Append(jobs, JobRow(job_type, asset_id, target_locale, clock))
  /\ run' = [run EXCEPT !.job_id = Len(jobs) + 1, !.pc = "queued", !.idx = 0,
                        !.calls = @ + 1, !.saved = <<>>, !.trace = <<>>,
                        !.counts = NoCounts, !.fallback = NoFallback]
  /\ UNCHANGED <<fw, change, schema, assets, schema_profiles, import_summary, lp_copy, glossary, tm_fts, search, clock, segments, translation_candidates, qa_flags,
                 approved_translations, approvals, tm_entries>>

\* update_job_status(running), _resolve_provider twice, engine.begin()
JobStart(fallbacks) ==
  /\ run.pc = "queued"
  /\ jobs' = [jobs EXCEPT ![run.job_id] =
               update_job_status(@, clock, "running", "running", TRUE, FALSE)]
  /\ \E fallback \in fallbacks :
       run' = [run EXCEPT !.pc = "running", !.idx = 1, !.fallback = fallback,
                          !.saved = <<segments, translation_candidates, qa_flags, tm_entries>>]
  /\ UNCHANGED <<fw, change, schema, assets, schema_profiles, import_summary, lp_copy, glossary, tm_fts, search, clock, segments, translation_candidates, qa_flags,
                 approved_translations, approvals, tm_entries>>

\* strict_provider_selection with the openai provider and no api key:
\* _resolve_provider raises before the try block
JobStartStrictFailure(job_types) ==
  /\ run.pc = "queued"
  /\ jobs[run.job_id].job_type \in job_types
  /\ jobs' = [jobs EXCEPT ![run.job_id] =
               update_job_status(@, clock, "running", "running", TRUE, FALSE)]
  /\ run' = [run EXCEPT !.pc = "raised"]
  /\ UNCHANGED <<fw, change, schema, assets, schema_profiles, import_summary, lp_copy, glossary, tm_fts, search, clock, segments, translation_candidates, qa_flags,
                 approved_translations, approvals, tm_entries>>

\* search_fuzzy: the best hit the FTS index and the scorer give, if any; the
\* scorer is outside the repository, so any row in scope may be the hit,
\* with a score on either side of TM_FUZZY_THRESHOLD
FuzzyScores == {TM_FUZZY_THRESHOLD - 1, TM_FUZZY_THRESHOLD}

FuzzyChoices(tm, project_id, source_locale, target_locale) ==
  {NoHit} \cup
  { [tm_id |-> r.id, target_text |-> r.target_text, score |-> score] :
      r \in { e \in tm : /\ e.project_id = project_id
                         /\ e.source_locale = source_locale
                         /\ e.target_locale = target_locale },
      score \in FuzzyScores }

\* counted names the counters the pass increments
Outcome(candidates, flags, tm, called, g, counted) ==
  [candidates |-> candidates, flags |-> flags, tm |-> tm,
   trace |-> [called |-> called, counted |-> counted,
              qa_issues |-> g.qa_issues, candidate_type |-> g.candidate_type,
              candidate_text |-> g.candidate_text,
              score |-> g.score, model_info |-> g.model_info,
              translated |-> g.translated, output |-> g.output,
              tm_id |-> g.tm_id, fuzzy_score |-> g.fuzzy_score,
              expected_enforcements |-> g.expected_enforcements]]

IsChanged(seg) ==
  /\ seg.source_text_old # NoText
  /\ Strip(seg.source_text_old) # Strip(seg.source_text)

\* _change_variant_a_issue and the base_issue of variant B
StaleSourceIssue(decision, confidence) ==
  [issue_type |-> "stale_source_change", severity |-> "warn",
   message |-> [decision |-> decision, confidence |-> confidence]]

ImpactFlaggedIssue(decision, confidence) ==
  [issue_type |-> "impact_flagged", severity |-> "warn",
   message |-> [decision |-> decision, confidence |-> confidence]]

_change_proposal_score_two_valued(g) ==
  IF g.candidate_type = "tm_exact" THEN 100 ELSE 50

\* _change_proposal_score, in hundredths
_change_proposal_score(g) ==
  IF g.candidate_type = "tm_exact" THEN 100
  ELSE IF g.candidate_type = "tm_fuzzy" THEN g.score ELSE 50

\* replaces the candidate of type change_proposed
upsert_change_proposal(rows, position, candidate_text, score, model_info, generated_at) ==
  _upsert_candidate_on_connection(rows, position, candidate_text, "change_proposed",
                                  score, model_info, generated_at)

MockTranslateSegment_skipping_errors(seg, rows, flags, tm, g, position, generated_at) ==
  IF \E i \in DOMAIN g.qa_issues : g.qa_issues[i].severity = "error"
    THEN Outcome(rows, _replace_qa_flags(flags, g.qa_issues), g.tm, TRUE, g, {})
    ELSE Outcome(_upsert_candidate_on_connection(rows, position, g.candidate_text,
                   g.candidate_type, g.score, g.model_info, generated_at),
                 _replace_qa_flags(flags, g.qa_issues), g.tm, TRUE, g, {"processed"})

\* the loop body of run_mock_translation_job for one segment
MockTranslateSegment(seg, rows, flags, tm, g, position, generated_at) ==
  IF Strip(seg.source_text) = <<>>
    THEN Outcome(rows, _replace_qa_flags(flags, <<>>), tm, FALSE, g, {})
    ELSE Outcome(_upsert_candidate_on_connection(rows, position, g.candidate_text,
                   g.candidate_type, g.score, g.model_info, generated_at),
                 _replace_qa_flags(flags, g.qa_issues), g.tm, TRUE, g, {"processed"})

VariantASegment_clearing_unchanged(seg, rows, flags, tm, g, position, generated_at) ==
  IF ~IsChanged(seg) THEN Outcome(rows, _replace_qa_flags(flags, <<>>), tm, FALSE, g, {})
  ELSE Outcome(upsert_change_proposal(rows, position, g.candidate_text,
                 _change_proposal_score(g), g.model_info, generated_at),
               _replace_qa_flags(flags, <<StaleSourceIssue("UPDATE", 50)>> \o g.qa_issues),
               g.tm, TRUE, g, {"changed_rows", "proposals_created"})

\* the loop body of run_change_variant_a_job
VariantASegment(seg, rows, flags, tm, g, position, generated_at) ==
  IF ~IsChanged(seg) THEN Outcome(rows, flags, tm, FALSE, g, {})
  ELSE Outcome(upsert_change_proposal(rows, position, g.candidate_text,
                 _change_proposal_score(g), g.model_info, generated_at),
               _replace_qa_flags(flags, <<StaleSourceIssue("UPDATE", 50)>> \o g.qa_issues),
               g.tm, TRUE, g, {"changed_rows", "proposals_created"})

\* the loop body of run_change_variant_b_job after the classification
VariantBClassified(seg, rows, flags, tm, g, position, generated_at, c) ==
  IF c.decision = "KEEP"
    THEN Outcome(_delete_candidate_types(rows, CHANGE_PROPOSED_CANDIDATE_TYPES),
                 _replace_qa_flags(flags, <<StaleSourceIssue(c.decision, c.confidence)>>),
                 tm, FALSE, g, {"changed_rows", "keep"})
  ELSE IF c.decision = "FLAG"
    THEN Outcome(_delete_candidate_types(rows, CHANGE_PROPOSED_CANDIDATE_TYPES),
                 _replace_qa_flags(flags, <<StaleSourceIssue(c.decision, c.confidence),
                                            ImpactFlaggedIssue(c.decision, c.confidence)>>),
                 tm, FALSE, g, {"changed_rows", "flag"})
  ELSE Outcome(_upsert_candidate_on_connection(rows, position, g.candidate_text,
                 "change_proposed",
                 IF g.candidate_type = "tm_exact" THEN 100 ELSE c.confidence,
                 g.model_info, generated_at),
               _replace_qa_flags(flags, <<StaleSourceIssue(c.decision, c.confidence)>>
                                        \o g.qa_issues),
               g.tm, TRUE, g, {"changed_rows", "update"})

VariantBSegment(seg, rows, flags, tm, g, position, generated_at) ==
  IF ~IsChanged(seg)
    THEN Outcome(_delete_candidate_types(rows, CHANGE_PROPOSED_CANDIDATE_TYPES),
                 _delete_qa_flag_types(flags, CHANGE_QA_FLAG_TYPES), tm, FALSE, g, {})
    ELSE VariantBClassified(seg, rows, flags, tm, g, position, generated_at,
                            classify_change(seg.source_text_old, seg.source_text))

SegmentOutcome(job_type, seg, rows, flags, tm, g, position, generated_at) ==
  CASE job_type = "mock_translate" ->
         MockTranslateSegment(seg, rows, flags, tm, g, position, generated_at)
    [] job_type = "change_variant_a" ->
         VariantASegment(seg, rows, flags, tm, g, position, generated_at)
    [] OTHER -> VariantBSegment(seg, rows, flags, tm, g, position, generated_at)

SegmentCount(asset_id) == Cardinality({ s \in segments : s.asset_id = asset_id })

\* the writes of one pass of the loop over segment_rows
ApplySegment(seg, key, protected_source, out) ==
  /\ segments' = (segments \ {seg})
       \cup {[seg EXCEPT !.placeholders_json = protected_source.placeholders]}
  /\ translation_candidates' = [translation_candidates EXCEPT ![key] = out.candidates]
  /\ qa_flags' = [qa_flags EXCEPT ![key] = out.flags]
  /\ tm_entries' = out.tm
  /\ run' = [run EXCEPT !.idx = @ + 1, !.trace = Append(@, out.trace),
                        !.counts = [c \in DOMAIN @ |->
                                      IF c \in out.trace.counted THEN @[c] + 1 ELSE @[c]]]

ProcessSegment(job, seg, key, translator_kinds, reviewer_kinds) ==
  \E translator_kind \in translator_kinds, reviewer_kind \in reviewer_kinds,
     position \in 1..(Len(translation_candidates[key]) + 1),
     fuzzy \in FuzzyChoices(tm_entries, seg.project_id, seg.source_locale, job.target_locale) :
    /\ run.fallback.translator # "none" => translator_kind = "mock"
    /\ run.fallback.reviewer # "none" => reviewer_kind = "mock"
    /\ \E protected_source \in {protect_text(seg.source_text)} :
         \E g \in {GenerateProtected(tm_entries, clock, seg.project_id, seg.source_locale,
                     seg.source_text, job.target_locale, seg.char_limit, GlossaryTerms,
                     protected_source, fuzzy, translator_kind, reviewer_kind,
                     run.fallback)} :
           ApplySegment(seg, key, protected_source,
             SegmentOutcome(job.job_type, seg, translation_candidates[key], qa_flags[key],
                            tm_entries, g, position, clock))

JobSegment_dropping_approved(translator_kinds, reviewer_kinds) ==
  /\ run.pc = "running"
  /\ run.idx <= SegmentCount(jobs[run.job_id].asset_id)
  /\ ProcessSegment(jobs[run.job_id], SegmentOf(<<jobs[run.job_id].asset_id, run.idx>>),
                    <<<<jobs[run.job_id].asset_id, run.idx>>, jobs[run.job_id].target_locale>>,
                    translator_kinds, reviewer_kinds)
  /\ approved_translations' =
       { a \in approved_translations :
           a.segment_id # <<jobs[run.job_id].asset_id, run.idx>> }
  /\ UNCHANGED <<fw, change, schema, assets, schema_profiles, import_summary, lp_copy, glossary, tm_fts, search, clock, approvals, jobs>>

JobSegment(translator_kinds, reviewer_kinds) ==
  /\ run.pc = "running"
  /\ run.idx <= SegmentCount(jobs[run.job_id].asset_id)
  /\ ProcessSegment(jobs[run.job_id], SegmentOf(<<jobs[run.job_id].asset_id, run.idx>>),
                    <<<<jobs[run.job_id].asset_id, run.idx>>, jobs[run.job_id].target_locale>>,
                    translator_kinds, reviewer_kinds)
  /\ UNCHANGED <<fw, change, schema, assets, schema_profiles, import_summary, lp_copy, glossary, tm_fts, search, clock, approved_translations, approvals, jobs>>

\* an exception inside the transaction (a provider or database error): the
\* transaction is rolled back and the job marked failed
JobFail ==
  /\ run.pc = "running"
  /\ segments' = run.saved[1]
  /\ translation_candidates' = run.saved[2]
  /\ qa_flags' = run.saved[3]
  /\ tm_entries' = run.saved[4]
  /\ jobs' = [jobs EXCEPT ![run.job_id] =
               update_job_status(@, clock, "failed", "failed", FALSE, TRUE)]
  /\ run' = [run EXCEPT !.pc = "failed", !.saved = <<>>]
  /\ UNCHANGED <<fw, change, schema, assets, schema_profiles, import_summary, lp_copy, glossary, tm_fts, search, clock, approved_translations, approvals>>

\* the TM rows the passes of a run handed to record_tm_use, in order
ConsumedHits(trace) ==
  SelectSeq([i \in DOMAIN trace |-> IF trace[i].called THEN trace[i].tm_id ELSE 0],
            LAMBDA tm_id : tm_id # 0)

_update_job_decision_trace_lost(job, counts) == job

\* _update_job_decision_trace of the change jobs: summary_counts
_update_job_decision_trace(job, counts) ==
  IF job.job_type = "mock_translate" THEN job ELSE [job EXCEPT !.summary_counts = counts]

\* the loop ended: commit, the decision trace, update_job_status(done)
JobFinish ==
  /\ run.pc = "running"
  /\ run.idx > SegmentCount(jobs[run.job_id].asset_id)
  /\ jobs' = [jobs EXCEPT ![run.job_id] =
               update_job_status(_update_job_decision_trace(@, run.counts), clock,
                                 "done", "done", FALSE, TRUE)]
  /\ run' = [run EXCEPT !.pc = "done", !.saved = <<>>,
                        !.consumed = @ \o ConsumedHits(run.trace)]
  /\ UNCHANGED <<fw, change, schema, assets, schema_profiles, import_summary, lp_copy, glossary, tm_fts, search, clock, segments, translation_candidates, qa_flags,
                 approved_translations, approvals, tm_entries>>

(***************************************************************************)
(* Specification Spec: the project database under imports, approvals,      *)
(* edits and jobs                                                          *)
(***************************************************************************)
Init ==
  /\ fw = FwIdle
  /\ change = NoChange
  /\ EmptyStore

Next ==
  \/ Tick
  \/ import_asset({IF segments = {} THEN FirstSheet ELSE NextSheet}, {"de"})
  \/ upsert_approved_translation(Locales, ApprovalTexts)
  \/ upsert_candidate({"de"}, {TextLos})
  \/ create_job(JobTypes, {"de"})
  \/ JobStart({NoFallback})
  \/ JobStartStrictFailure(JobTypes)
  \/ JobSegment({"mock"}, {"mock"})
  \/ JobFail
  \/ JobFinish

Spec == Init /\ [][Next]_vars

(***************************************************************************)
(* Specification SpecPipeline: one imported file, jobs of every kind over  *)
(* it with providers that keep, drop, rewrite or invent lock tokens        *)
(***************************************************************************)
TranslatorKinds ==
  {"mock", "keep", "drop_ph", "drop_term", "drop_all", "literal_ph", "literal_term",
   "invent_term"}

ReviewerKinds == {"keep", "restore", "drop_term"}

NextPipeline ==
  \/ Tick
  \/ segments = {} /\ import_asset(PipelineSheets, {"de"})
  \/ tm_entries = {} /\ upsert_approved_translation({"de"}, {TextGeh})
  \/ jobs = <<>> /\ create_job(JobTypes, {"de"})
  \/ JobStart({NoFallback})
  \/ JobSegment(TranslatorKinds, ReviewerKinds)
  \/ JobFail
  \/ JobFinish

SpecPipeline == Init /\ [][NextPipeline]_vars

(***************************************************************************)
(* Specification SpecJobs: imports and re-imports, and jobs of every kind  *)
(* for both locales, with a translator that may drop the placeholders      *)
(***************************************************************************)
\* job runs of one execution of SpecJobs
MaxJobs == 2

NextJobs ==
  \/ import_asset(JobSheets, {"de"})
  \/ Len(jobs) < MaxJobs /\ create_job(JobTypes, Locales)
  \/ JobStart({NoFallback})
  \/ JobSegment({"mock", "drop_ph"}, {"mock"})
  \/ JobFail
  \/ JobFinish

SpecJobs == Init /\ [][NextJobs]_vars

(***************************************************************************)
(* Specification SpecTM: the translation memory alone, written and read    *)
(* with source texts that differ in letter case and in spacing             *)
(***************************************************************************)
UpperChar(c) ==
  IF c \in Range(LowerLetters)
    THEN UpperLetters[CHOOSE i \in DOMAIN LowerLetters : LowerLetters[i] = c]
    ELSE c

Upper(s) == [k \in DOMAIN s |-> UpperChar(s[k])]

\* source texts as lists of lower-case words
TMBases == { <<<<"g", "o">>, <<"%", "s">>>>, <<<<"h", "i">>>> }

CaseVariants(word) == { word, Upper(word), <<UpperChar(word[1])>> \o Tail(word) }

Spacings == { <<" ">>, <<" ", " ">>, <<"\t">> }
Margins == { <<<<>>, <<>>>>, <<<<" ">>, <<>>>>, <<<<>>, <<NL>>>>, <<<<"\t">>, <<" ">>>> }

\* the words in every mix of case variants, joined by any spacing
JoinedWords(base) ==
  IF Len(base) = 1 THEN CaseVariants(base[1])
  ELSE { a \o sp \o b : a \in CaseVariants(base[1]), sp \in Spacings,
                        b \in CaseVariants(base[2]) }

\* every spelling of a base: texts that differ only in letter case, in
\* leading or trailing whitespace and in the length of whitespace runs
SpellingsOf(base) ==
  { m[1] \o t \o m[2] : m \in Margins, t \in JoinedWords(base) }

\* the spellings written to the memory
StoredSpellings ==
  UNION { { a \o sp \o b : a \in {base[1], Upper(base[1])},
                           sp \in IF Len(base) = 1 THEN {<<>>} ELSE {<<" ">>, <<" ", " ">>},
                           b \in IF Len(base) = 1 THEN {<<>>}
                                 ELSE {base[2], Upper(base[2])} } : base \in TMBases }

QuerySpellings == UNION { SpellingsOf(base) : base \in TMBases }

\* upsert_tm_entry called with its own transaction
TMUpsert(source_texts, target_texts, target_locales) ==
  /\ run.calls < MaxCalls
  /\ \E source_text \in source_texts, target_text \in target_texts,
        target_locale \in target_locales :
       /\ tm_entries' = upsert_tm_entry(tm_entries, clock, "p1", "en", target_locale,
                                        source_text, target_text, "approved", "trusted")
       /\ tm_fts' = refresh_tm_fts(tm_fts,
                                   UpsertedTmId(tm_entries, "p1", "en", target_locale,
                                                source_text),
                                   "p1", "en", target_locale, source_text, target_text)
  /\ run' = [run EXCEPT !.calls = @ + 1]
  /\ UNCHANGED <<fw, change, schema, assets, schema_profiles, import_summary, lp_copy, glossary, search, clock, segments, translation_candidates, qa_flags,
                 approved_translations, approvals, jobs>>

\* find_exact followed by record_tm_use on a hit
TMUse(source_texts, target_locales) ==
  /\ run.calls < MaxCalls
  /\ \E source_text \in source_texts, target_locale \in target_locales :
       \E hit \in {find_exact(tm_entries, "p1", "en", target_locale, source_text)} :
         /\ hit # NoRow
         /\ tm_entries' = record_tm_use(tm_entries, clock, hit.id)
  /\ run' = [run EXCEPT !.calls = @ + 1]
  /\ UNCHANGED <<fw, change, schema, assets, schema_profiles, import_summary, lp_copy, glossary, tm_fts, search, clock, segments, translation_candidates, qa_flags,
                 approved_translations, approvals, jobs>>

NextTM ==
  \/ Tick
  \/ TMUpsert(StoredSpellings, ApprovalTexts, {"de"})
  \/ TMUse(QuerySpellings, {"de"})

SpecTM == Init /\ [][NextTM]_vars
(***************************************************************************)
(* Specification SpecProviders: one imported row of every risk profile,    *)
(* and jobs of every kind over it whose providers are the mock provider,   *)
(* selected by the policy or standing in for one without a credential      *)
(***************************************************************************)
TextTag == <<"<", "b", ">", "H", "i", "<", "/", "b", ">">>
TextTagLong ==
  <<"<", "b", ">", "H", "e", "l", "l", "o", " ", "w", "o", "r", "l", "d", "!", "<", "/", "b", ">">>
TextGoGo == <<"G", "o", " ", "G", "o", " ", "%", "s">>
TextPlain == <<"H", "e", "l", "l", "o", " ", "e", "v", "e", "r", "y", "o", "n", "e">>

\* a source of 198 characters that ends in a placeholder: its protected text
\* has 202 characters
TextLong == [i \in 1..196 |-> "a"] \o <<"%", "s">>

RiskTexts == {TextHi, TextGo, TextGoGo, TextTag, TextTagLong, TextPlain}

ProviderSheets ==
  { <<SheetRow(source_text, source_text_old, NoText, char_limit)>> :
      source_text \in RiskTexts, source_text_old \in {NoText, TextAlt},
      char_limit \in {0, 20} }
  \cup { <<SheetRow(TextLong, NoText, NoText, 0)>> }

\* _resolve_provider without strict_provider_selection: a policy that names
\* openai for a task resolves to mock when the api key is missing
Fallbacks == [translator : {"none", "openai"}, reviewer : {"none", "openai"}]

NextProviders ==
  \/ segments = {} /\ import_asset(ProviderSheets, {"de"})
  \/ Len(jobs) < MaxJobs /\ create_job(JobTypes, {"de"})
  \/ JobStart(Fallbacks)
  \/ JobSegment({"mock"}, {"mock"})
  \/ JobFinish

SpecProviders == Init /\ [][NextProviders]_vars

(***************************************************************************)
(* Specification SpecApprove: approvals of one imported file, with final   *)
(* texts that may be empty or blank                                        *)
(***************************************************************************)
BlankTexts == {<<>>, <<" ">>}

NextApprove ==
  \/ Tick
  \/ segments = {} /\ import_asset({FirstSheet}, {"de"})
  \/ upsert_approved_translation(Locales, ApprovalTexts \cup BlankTexts)

SpecApprove == Init /\ [][NextApprove]_vars

(***************************************************************************)
(* Specification SpecMigrate: initialize_database on a database file of    *)
(* any version, each call one transaction that may fail at any statement   *)
(***************************************************************************)
\* create_sqlite_engine, engine.begin() and get_schema_version
MigrateBegin ==
  /\ schema.pc # "migrating"
  /\ run.calls < MaxCalls
  /\ \E autocommit \in BOOLEAN :
       schema' = [SchemaIdle(schema.db) EXCEPT !.pc = "migrating", !.autocommit = autocommit]
  /\ run' = [run EXCEPT !.calls = @ + 1]
  /\ UNCHANGED <<fw, change, assets, schema_profiles, import_summary, lp_copy, glossary, tm_fts, search, clock, segments, translation_candidates, qa_flags,
                 approved_translations, approvals, tm_entries, jobs>>

\* the version the loop of migrate_to_latest runs next
NextVersion(db) ==
  CHOOSE v \in PendingVersions(get_schema_version(db)) :
    \A w \in PendingVersions(get_schema_version(db)) : v <= w

\* the database file when the transaction is rolled back now: a DDL
\* statement run before the first write of the transaction stays if the
\* driver commits it on its own
SavedAfter(db) ==
  IF schema.autocommit /\ ~schema.dml THEN db ELSE schema.saved

\* one statement of MIGRATIONS[target_version](connection)
MigrateStatement ==
  /\ schema.pc = "migrating"
  /\ PendingVersions(get_schema_version(schema.db)) # {}
  /\ schema.statement < Len(MigrationStatements(NextVersion(schema.db)))
  /\ \E db \in {ExecuteStatement(schema.db,
                  MigrationStatements(NextVersion(schema.db))[schema.statement + 1])} :
       schema' = [schema EXCEPT !.db = db, !.saved = SavedAfter(db),
                                !.statement = @ + 1,
                                !.target_version = NextVersion(schema.db)]
  /\ UNCHANGED <<fw, change, assets, schema_profiles, import_summary, lp_copy, glossary, tm_fts, search, clock, segments, translation_candidates, qa_flags,
                 approved_translations, approvals, tm_entries, jobs, run>>

\* _set_schema_version(connection, target_version): the first write of the
\* transaction opens it for the driver
MigrateSetVersion ==
  /\ schema.pc = "migrating"
  /\ PendingVersions(get_schema_version(schema.db)) # {}
  /\ schema.statement = Len(MigrationStatements(NextVersion(schema.db)))
  /\ schema' = [schema EXCEPT !.db = _set_schema_version(@, NextVersion(schema.db)),
                              !.statement = 0, !.dml = TRUE]
  /\ UNCHANGED <<fw, change, assets, schema_profiles, import_summary, lp_copy, glossary, tm_fts, search, clock, segments, translation_candidates, qa_flags,
                 approved_translations, approvals, tm_entries, jobs, run>>

\* the loop ended: the transaction commits
MigrateCommit ==
  /\ schema.pc = "migrating"
  /\ PendingVersions(get_schema_version(schema.db)) = {}
  /\ schema' = [schema EXCEPT !.pc = "done", !.saved = schema.db]
  /\ UNCHANGED <<fw, change, assets, schema_profiles, import_summary, lp_copy, glossary, tm_fts, search, clock, segments, translation_candidates, qa_flags,
                 approved_translations, approvals, tm_entries, jobs, run>>

\* a statement raises: the transaction is rolled back
MigrateFail ==
  /\ schema.pc = "migrating"
  /\ schema' = [schema EXCEPT !.pc = "failed", !.db = schema.saved]
  /\ UNCHANGED <<fw, change, assets, schema_profiles, import_summary, lp_copy, glossary, tm_fts, search, clock, segments, translation_candidates, qa_flags,
                 approved_translations, approvals, tm_entries, jobs, run>>

InitMigrate ==
  /\ fw = FwIdle
  /\ change = NoChange
  /\ \E version \in 0..3 : schema = SchemaIdle(DatabaseAt(version))
  /\ glossary = [pc |-> "none", terms |-> {}, project_id |-> "none", locale_code |-> "none",
                include_global |-> FALSE, loaded |-> <<>>, text |-> <<>>, matches |-> <<>>]
  /\ EmptyTables

NextMigrate ==
  \/ MigrateBegin
  \/ MigrateStatement
  \/ MigrateSetVersion
  \/ MigrateCommit
  \/ MigrateFail

SpecMigrate == InitMigrate /\ [][NextMigrate]_vars

(***************************************************************************)
(* Specification SpecImport: a first file, then one import_asset call with *)
(* any file type, row-view and column mapping, valid or not                *)
(***************************************************************************)
ImportFileTypes == {"xlsx", "csv", "pdf"}

RowFull == SheetRow(TextGo, TextAlt, TextGeh, 20)
RowNoSource == SheetRow(<<" ">>, NoText, TextLos, 0)
RowNoTarget == SheetRow(TextHi, NoText, <<" ">>, 0)

\* row-views: with a skipped row, with the labels of a filtered dataframe,
\* with labels that are no numbers, with one column, with no rows
ImportFrames ==
  { Frame(SheetColumns, RangeIndex(<<1, 2, 3>>), <<RowFull, RowNoSource, RowNoTarget>>),
    Frame(SheetColumns, <<RowName(TRUE, 5), RowName(TRUE, 7)>>, <<RowFull, RowNoTarget>>),
    Frame(SheetColumns, <<RowName(FALSE, 0), RowName(FALSE, 0)>>, <<RowNoSource, RowFull>>),
    Frame({"source_text"}, RangeIndex(<<1>>), <<RowNoTarget>>),
    Frame(SheetColumns, <<>>, <<>>) }

ImportMappings ==
  { Mapping(mode, source_new, source_old, target, target_locale, "none", char_limit) :
      mode \in {"lp", "change file (old/new source)", "lp2"},
      source_new \in {"source_text", "none", "source"},
      source_old \in {"none", "source_text_old", "old"},
      target \in {"none", "target_text", "target"},
      target_locale \in {"none", "de"},
      char_limit \in {"none", "char_limit"} }
    \cup { Mapping("lp", "source_text", "none", "none", "none", "key", "none") }

NextImport ==
  \/ Tick
  \/ assets = {} /\ import_asset({FirstSheet}, {"de"})
  \/ upsert_approved_translation({"de"}, {TextGeh})
  \/ import_summary.asset_id = 1 /\ ImportAsset(ImportFileTypes, ImportFrames, ImportMappings)

SpecImport == Init /\ [][NextImport]_vars

(***************************************************************************)
(* In-place workbook copy: tt_core/export/export_lp_copy.py                *)
(***************************************************************************)
\* a worksheet is the value of each of its cells, by <<row, column>>; a
\* workbook is its worksheets by sheet name
CellValue(worksheet, row, column) ==
  IF <<row, column>> \in DOMAIN worksheet THEN worksheet[<<row, column>>] ELSE NoText

\* worksheet.cell(row, column).value = value
SetCellValue(worksheet, row, column, value) ==
  [at \in DOMAIN worksheet \cup {<<row, column>>} |->
     IF at = <<row, column>> THEN value ELSE worksheet[at]]

\* worksheet.max_column
max_column(worksheet) ==
  IF DOMAIN worksheet = {} THEN 1
  ELSE CHOOSE c \in { at[2] : at \in DOMAIN worksheet } :
         \A at \in DOMAIN worksheet : at[2] <= c

\* the characters of a locale code
LocaleChars(target_locale) ==
  CASE target_locale = "de" -> <<"d", "e">>
    [] target_locale = "fr" -> <<"f", "r">>
    [] target_locale = "de-DE" -> <<"d", "e", "-", "D", "E">>
    [] target_locale = "-" -> <<"-">>
    [] OTHER -> <<>>

_locale_short(target_locale) ==
  LET t == LocaleChars(target_locale)
      hyphens == { k \in DOMAIN t : t[k] = "-" }
      base == Strip(IF hyphens = {} THEN t ELSE Slice(t, 1, Leftmost(hyphens) - 1))
  IN IF base # <<>> THEN Upper(base)
     ELSE IF Strip(t) # <<>> THEN Upper(Strip(t))
     ELSE <<"X", "X">>

_new_column_name(target_locale) == <<"N", "E", "W", " ">> \o _locale_short(target_locale)

\* the column _ensure_new_column returns and the worksheet it leaves
_ensure_new_column_always_appending(worksheet, new_column_name) ==
  [column |-> max_column(worksheet) + 1,
   worksheet |-> SetCellValue(worksheet, 1, max_column(worksheet) + 1, new_column_name)]

_ensure_new_column(worksheet, new_column_name) ==
  LET found == { c \in 1..max_column(worksheet) :
                   /\ CellValue(worksheet, 1, c) # NoText
                   /\ Strip(CellValue(worksheet, 1, c)) = new_column_name }
  IN IF found # {} THEN [column |-> Leftmost(found), worksheet |-> worksheet]
     ELSE [column |-> max_column(worksheet) + 1,
           worksheet |-> SetCellValue(worksheet, 1, max_column(worksheet) + 1,
                                      new_column_name)]

\* the loop of _write_rows_for_sheet from row k of rows on
RECURSIVE WriteRowsFrom(_, _, _, _, _)
WriteRowsFrom(worksheet, rows, k, column, written_rows) ==
  IF k > Len(rows) THEN [worksheet |-> worksheet, written_rows |-> written_rows]
  ELSE IF rows[k].row_index < 2
    THEN WriteRowsFrom(worksheet, rows, k + 1, column, written_rows)
    ELSE WriteRowsFrom(SetCellValue(worksheet, rows[k].row_index, column,
                                    rows[k].approved_target_text),
                       rows, k + 1, column, written_rows + 1)

_write_rows_for_sheet(worksheet, rows, new_column_name) ==
  WriteRowsFrom(_ensure_new_column(worksheet, new_column_name).worksheet, rows, 1,
                _ensure_new_column(worksheet, new_column_name).column, 0)

\* the sheet_name import_asset stores with the segments of an asset: the
\* imports of this model read the sheet Sheet1 of a workbook
SheetNameOf(asset_type) == IF asset_type = "xlsx" THEN "Sheet1" ELSE "none"

\* ApprovedPatchRow
ApprovedPatchRow(s, a, sheet_name) ==
  [segment_id |-> s.id, row_index |-> s.row_index, source_text |-> s.source_text,
   approved_target_text |-> a.final_text, sheet_name |-> sheet_name]

\* ORDER BY s.row_index, s.id of a set of rows
RECURSIVE OrderByRow(_)
OrderByRow(rows) ==
  IF rows = {} THEN <<>>
  ELSE LET first == CHOOSE r \in rows : \A q \in rows :
                      \/ r.row_index < q.row_index
                      \/ r.row_index = q.row_index /\ r.segment_id[2] <= q.segment_id[2]
       IN <<first>> \o OrderByRow(rows \ {first})

list_approved_for_asset(asset_id, target_locale) ==
  OrderByRow({ ApprovedPatchRow(s, a, SheetNameOf((CHOOSE t \in assets : t.id = asset_id).asset_type)) :
                 <<s, a>> \in { p \in segments \X approved_translations :
                                  /\ p[2].segment_id = p[1].id
                                  /\ p[1].asset_id = asset_id
                                  /\ p[2].target_locale = target_locale } })

NoLpCopy ==
  [pc |-> "none", error |-> "none", asset_id |-> 0, target_locale |-> "none",
   original |-> <<>>, workbook |-> <<>>, row_count |-> 0]

\* a call that raised before it copied the file
LpCopyRaise(error, asset_id, target_locale) ==
  [NoLpCopy EXCEPT !.pc = "raised", !.error = error, !.asset_id = asset_id,
                   !.target_locale = target_locale]

\* the copy saved for approved_rows, all of them of the sheet sheet_name
LpCopySave(asset_id, target_locale, original, sheet_name, written) ==
  [pc |-> "saved", error |-> "none", asset_id |-> asset_id, target_locale |-> target_locale,
   original |-> original,
   workbook |-> IF sheet_name \in DOMAIN original
                  THEN [original EXCEPT ![sheet_name] = written.worksheet] ELSE original,
   row_count |-> IF sheet_name \in DOMAIN original THEN written.written_rows ELSE 0]

LpCopyResult(asset_id, target_locale, source) ==
  IF asset_id \notin { t.id : t \in assets } THEN LpCopyRaise("Asset not found", asset_id, target_locale)
  ELSE IF (CHOOSE t \in assets : t.id = asset_id).asset_type # "xlsx"
    THEN LpCopyRaise("LP copy export supports only XLSX assets.", asset_id, target_locale)
  ELSE IF ~source.found
    THEN LpCopyRaise("Original XLSX not available", asset_id, target_locale)
  ELSE IF list_approved_for_asset(asset_id, target_locale) = <<>>
    THEN LpCopyRaise("No approved translations found", asset_id, target_locale)
  ELSE LpCopySave(asset_id, target_locale, source.workbook, "Sheet1",
                  IF "Sheet1" \in DOMAIN source.workbook
                    THEN _write_rows_for_sheet(source.workbook["Sheet1"],
                                               list_approved_for_asset(asset_id, target_locale),
                                               _new_column_name(target_locale))
                    ELSE [worksheet |-> <<>>, written_rows |-> 0])

export_lp_copy_with_new_column(asset_ids, target_locales, sources) ==
  /\ ~Busy
  /\ run.calls < MaxCalls
  /\ \E asset_id \in asset_ids, target_locale \in target_locales, source \in sources :
       lp_copy' = LpCopyResult(asset_id, target_locale, source)
  /\ run' = [run EXCEPT !.calls = @ + 1]
  /\ UNCHANGED <<fw, change, schema, assets, schema_profiles, import_summary, glossary, tm_fts, search, clock,
                 segments, translation_candidates, qa_flags, approved_translations,
                 approvals, tm_entries, jobs>>

(***************************************************************************)
(* Specification SpecExport: workbooks are imported, rows approved and the *)
(* workbook an asset was read from exported with the new column            *)
(***************************************************************************)
\* the worksheet of a header row and the rows below it
SheetOf(headers, rows) ==
  [at \in (1..(Len(rows) + 1)) \X (1..Len(headers)) |->
     IF at[1] = 1 THEN headers[at[2]] ELSE rows[at[1] - 1][at[2]]]

HeadEN == <<"E", "N">>
HeadDE == <<"D", "E">>
HeadNewDE == <<"N", "E", "W", " ", "D", "E">>
HeadNewFR == <<"N", "E", "W", " ", "F", "R">>
TextOld == <<"O", "l", "d">>

\* a sheet without the new column, one that has it already with a value in
\* every row, and one with the column of another language between the others
PlainSheet ==
  SheetOf(<<HeadEN, HeadDE>>, <<<<TextGo, TextAlt>>, <<TextHi, TextLos>>, <<TextAlt, NoText>>>>)

ExistingSheet ==
  SheetOf(<<HeadEN, HeadDE, HeadNewDE>>,
          <<<<TextGo, TextAlt, TextOld>>, <<TextHi, TextLos, TextOld>>,
            <<TextAlt, NoText, TextOld>>>>)

OtherLanguageSheet ==
  SheetOf(<<HeadEN, HeadNewFR, HeadDE>>,
          <<<<TextGo, TextOld, TextAlt>>, <<TextHi, TextOld, TextLos>>,
            <<TextAlt, TextOld, NoText>>>>)

ExportWorkbooks ==
  { [name \in {"Sheet1", "Notes"} |-> IF name = "Sheet1" THEN PlainSheet ELSE ExistingSheet],
    [name \in {"Sheet1"} |-> ExistingSheet],
    [name \in {"Sheet1"} |-> OtherLanguageSheet] }

ExportSources ==
  { [found |-> TRUE, workbook |-> workbook] : workbook \in ExportWorkbooks }
    \cup { [found |-> FALSE, workbook |-> <<>>] }

\* the rows of FirstSheet under pandas' default labels, and under labels
\* that put the first row on the header row of the workbook
ExportFrames ==
  { Frame(SheetColumns, RangeIndex(FirstSheet), FirstSheet),
    Frame(SheetColumns, <<RowName(TRUE, -1), RowName(TRUE, 1)>>, FirstSheet) }

ExportLocales == {"de-DE", "fr"}

NextExport ==
  \/ ImportAsset({"xlsx", "csv"}, ExportFrames, SheetMappings({"de"}))
  \/ upsert_approved_translation(ExportLocales, ApprovalTexts)
  \/ export_lp_copy_with_new_column(1..(MaxAssets + 1), ExportLocales, ExportSources)

SpecExport == Init /\ [][NextExport]_vars

(***************************************************************************)
(* Glossary store: tt_core/glossary/glossary_store.py                      *)
(***************************************************************************)
\* the state other than the glossary
notGlossary ==
  <<fw, change, schema, assets, schema_profiles, import_summary, lp_copy, tm_fts, search, clock, segments,
    translation_candidates, qa_flags, approved_translations, approvals, tm_entries, jobs, run>>

NoGlossary ==
  [pc |-> "none", terms |-> {}, project_id |-> "none", locale_code |-> "none",
   include_global |-> FALSE, loaded |-> <<>>, text |-> <<>>, matches |-> <<>>]

\* GlossaryTerm, and a row of glossary_terms
GlossaryTerm(id, project_id, locale_code, source_term, target_term, rule, match_type, case_sensitive, allow_compounds, compound_strategy, negative_patterns) ==
  [id |-> id, project_id |-> project_id, locale_code |-> locale_code,
   source_term |-> source_term, target_term |-> target_term, rule |-> rule,
   match_type |-> match_type, case_sensitive |-> case_sensitive,
   allow_compounds |-> allow_compounds, compound_strategy |-> compound_strategy,
   negative_patterns |-> negative_patterns]

\* the rows of the query in _load_must_use_for_project
MustUseRows(terms, project_id, locale_code) ==
  { row \in terms : /\ row.project_id = project_id
                    /\ row.locale_code = locale_code
                    /\ row.rule = "must_use" }

\* _load_must_use_for_project: the dict by source term; of the rows with one
\* source term the last in (source_term, id) order stays
_load_must_use_for_project(terms, project_id, locale_code) ==
  { row \in MustUseRows(terms, project_id, locale_code) :
      \A other \in MustUseRows(terms, project_id, locale_code) :
        other.source_term = row.source_term => other.id <= row.id }

\* dict.update: the entries of update replace those of merged with the same key
DictUpdate(merged, update) ==
  { row \in merged : \A other \in update : other.source_term # row.source_term }
    \cup update

\* the sort key (-len(source_term), source_term.casefold(), id)
TermBefore(a, b) ==
  \/ Len(a.source_term) > Len(b.source_term)
  \/ /\ Len(a.source_term) = Len(b.source_term)
     /\ \/ StrLess(Lower(a.source_term), Lower(b.source_term))
        \/ Lower(a.source_term) = Lower(b.source_term) /\ a.id < b.id

RECURSIVE SortedTerms(_)
SortedTerms(merged) ==
  IF merged = {} THEN <<>>
  ELSE LET first == CHOOSE a \in merged : \A b \in merged \ {a} : TermBefore(a, b)
       IN <<first>> \o SortedTerms(merged \ {first})

_load_must_use_terms_on_connection_global_last(terms, project_id, locale_code, include_global) ==
  SortedTerms(DictUpdate(_load_must_use_for_project(terms, project_id, locale_code),
                         IF include_global
                           THEN _load_must_use_for_project(terms, "global", locale_code)
                           ELSE {}))

_load_must_use_terms_on_connection(terms, project_id, locale_code, include_global) ==
  SortedTerms(DictUpdate(IF include_global
                           THEN _load_must_use_for_project(terms, "global", locale_code)
                           ELSE {},
                         _load_must_use_for_project(terms, project_id, locale_code)))

\* rows the glossary table holds at most
MaxTerms == 4

\* a row is inserted unless idx_glossary_terms_project_locale_source forbids it
InsertGlossaryTerm(rows) ==
  /\ Cardinality(glossary.terms) < MaxTerms
  /\ \E row \in rows :
       /\ \A other \in glossary.terms :
            <<other.project_id, other.locale_code, other.source_term>>
              # <<row.project_id, row.locale_code, row.source_term>>
       /\ glossary' = [glossary EXCEPT
            !.terms = @ \cup {[row EXCEPT !.id = Cardinality(glossary.terms) + 1]}]
  /\ UNCHANGED notGlossary

load_must_use_terms(project_ids, locale_codes) ==
  /\ \E project_id \in project_ids, locale_code \in locale_codes, include_global \in BOOLEAN :
       glossary' = [glossary EXCEPT
         !.pc = "loaded", !.project_id = project_id, !.locale_code = locale_code,
         !.include_global = include_global,
         !.loaded = _load_must_use_terms_on_connection(glossary.terms, project_id,
                                                       locale_code, include_global)]
  /\ UNCHANGED notGlossary

\* find_must_use_matches on a text with the terms at hand
FindMatches ==
  /\ glossary.pc = "terms"
  /\ glossary' = [glossary EXCEPT
       !.pc = "matched",
       !.matches = find_must_use_matches(glossary.text, glossary.loaded)]
  /\ UNCHANGED notGlossary

(***************************************************************************)
(* Specification SpecMatch: find_must_use_matches on one text and one or   *)
(* two terms                                                               *)
(***************************************************************************)
SourceGo == <<"G", "o">>
SourceDMG == <<"D", "M", "G">>
SourceG2 == <<"G", "2">>

\* tokens that equal a source term, differ from one in case, continue one
\* at each kind of split point or at none, or hold one inside
MatchTokens ==
  { SourceGo, <<"g", "o">>, <<"G", "o", "K", "a", "r", "t">>,
    <<"G", "o", "k", "a", "r", "t">>, <<"G", "o", "2">>, <<"g", "o", "K", "a", "r", "t">>,
    SourceDMG, <<"d", "m", "g">>, <<"D", "M", "G", "B", "o", "o", "s", "t">>,
    <<"D", "M", "G", "a">>, <<"D", "M", "G", "X">>, <<"A", "D", "M", "G", "X">>,
    SourceG2, <<"G", "2", "a">>, <<"G", "2", "2">>, <<"P", "H">> }

MatchTexts ==
  { before \o token \o after :
      before \in { <<>>, <<"x">>, <<LB, "P", "H", "_", "1", RB>> },
      token \in MatchTokens,
      after \in { <<>>, <<".">>, <<"-", "K", "a", "r", "t">> } }
    \cup { <<LB, "P", "H", "_", "1", RB>>, <<>> }

MatchTerms ==
  { GlossaryTerm(1, "p1", "de", source_term, TextLos, "must_use", match_type,
                 case_sensitive, allow_compounds, compound_strategy, negative_patterns) :
      source_term \in {SourceGo, SourceDMG, SourceG2, <<"P", "H">>},
      match_type \in {"whole_token", "word_boundary", "exact"},
      case_sensitive \in BOOLEAN, allow_compounds \in BOOLEAN,
      compound_strategy \in {"hyphenate", "replace_prefix", "keep_source"},
      negative_patterns \in { <<>>, <<<<"K", "a", "r", "t">>>> } }

\* a second term that competes with the first for the same tokens
RivalTerm ==
  GlossaryTerm(2, "p1", "de", <<"G", "o", "K", "a", "r", "t">>, TextAlt, "must_use",
               "whole_token", FALSE, FALSE, "hyphenate", <<>>)

InitMatch ==
  /\ fw = FwIdle
  /\ change = NoChange
  /\ schema = SchemaIdle(DatabaseAt(3))
  /\ EmptyTables
  /\ \E t \in MatchTexts, term \in MatchTerms :
       \E terms \in {<<term>>} \cup (IF term.match_type = "whole_token" THEN {<<term, RivalTerm>>} ELSE {}) :
         glossary = [NoGlossary EXCEPT !.pc = "terms", !.loaded = terms, !.text = t]

NextMatch == FindMatches

SpecMatch == InitMatch /\ [][NextMatch]_vars

(***************************************************************************)
(* Specification SpecGlossary: rows are inserted into glossary_terms and   *)
(* the must-use terms of a project loaded                                  *)
(***************************************************************************)
GlossaryRow(project_id, locale_code, source_term, target_term, rule) ==
  GlossaryTerm(0, project_id, locale_code, source_term, target_term, rule,
               "whole_token", TRUE, FALSE, "hyphenate", <<>>)

GlossaryRows ==
  { GlossaryRow(project_id, "de", source_term, IF project_id = "global" THEN TextAlt ELSE TextLos, "must_use") :
      project_id \in {"global", "p1"}, source_term \in {SourceGo, <<"g", "o">>, SourceDMG} }
    \cup { GlossaryRow("global", "fr", SourceGo, TextAlt, "must_use"),
           GlossaryRow("p1", "de", SourceG2, TextLos, "may_use"),
           GlossaryRow("global", "de", SourceG2, TextAlt, "must_use"),
           GlossaryRow("p2", "de", SourceGo, TextHi, "must_use") }

NextGlossary ==
  \/ InsertGlossaryTerm(GlossaryRows)
  \/ load_must_use_terms({"p1", "global"}, {"de", "fr"})

SpecGlossary == Init /\ [][NextGlossary]_vars
(***************************************************************************)
(* Specification SpecSearch: TM upserts in several scopes, then            *)
(* search_fuzzy over the mirror (tt_core/tm/tm_search.py)                  *)
(***************************************************************************)
\* the (project, source locale, target locale) searched, and another one
\* that holds rows as well
SearchedScope == <<"p1", "en", "de">>
OtherScope == <<"p2", "en", "fr">>

\* stored source texts: they share tokens, and none normalizes to another
SearchSources == { <<"a">>, <<"a", " ", "b">>, <<"b">> }

\* query texts: one that normalizes to a stored source, one token, one
\* without any token
SearchQueries == { <<"A", " ", " ", "b">>, <<"b">>, <<"%">> }

\* the limit argument, the values below 1 included
SearchLimits == {0, 2}

SearchUpsert(scopes, source_texts, target_texts) ==
  /\ run.calls < MaxCalls
  /\ \E scope \in scopes, source_text \in source_texts, target_text \in target_texts :
       /\ tm_entries' = upsert_tm_entry(tm_entries, clock, scope[1], scope[2], scope[3],
                                        source_text, target_text, "approved", "trusted")
       /\ tm_fts' = refresh_tm_fts(tm_fts,
                                   UpsertedTmId(tm_entries, scope[1], scope[2], scope[3],
                                                source_text),
                                   scope[1], scope[2], scope[3], source_text, target_text)
  /\ run' = [run EXCEPT !.calls = @ + 1]
  /\ UNCHANGED <<fw, change, schema, assets, schema_profiles, import_summary, lp_copy, glossary, search, clock,
                 segments, translation_candidates, qa_flags, approved_translations,
                 approvals, jobs>>

\* one search_fuzzy call; the scorer's numbers are the scorer's choice
SearchFuzzy(scopes, query_texts, limits) ==
  /\ \E scope \in scopes, source_text \in query_texts, limit \in limits :
       \E candidates \in {search_fts(tm_fts, scope[1], scope[2], scope[3], source_text)} :
         \E score \in ScoreChoices(candidates, normalize_source_text(source_text)) :
           search' = [pc |-> "done", project_id |-> scope[1], source_locale |-> scope[2],
                      target_locale |-> scope[3], source_text |-> source_text,
                      limit |-> limit,
                      hits |-> search_fuzzy(candidates, score, limit)]
  /\ UNCHANGED <<fw, change, schema, assets, schema_profiles, import_summary, lp_copy, glossary, tm_fts, clock,
                 segments, translation_candidates, qa_flags, approved_translations,
                 approvals, tm_entries, jobs, run>>

NextSearch ==
  \/ SearchUpsert({SearchedScope}, SearchSources, {<<"x">>})
  \/ SearchUpsert({OtherScope}, {<<"a", " ", "b">>}, {<<"x">>})
  \/ SearchFuzzy({SearchedScope}, SearchQueries, SearchLimits)

SpecSearch == Init /\ [][NextSearch]_vars

(***************************************************************************)
(* Specification SpecSelect: find_must_use_matches on texts that hold lock *)
(* tokens, with up to three terms whose matches overlap                    *)
(***************************************************************************)
\* texts with a placeholder token, a term token and several tokens
SelectTexts ==
  { <<"G", "o", "K", "a", "r", "t", " ", "G", "o">>,
    PHToken(1) \o <<"G", "o", "K", "a", "r", "t", " ", "G", "o">>,
    <<"G", "o">> \o TermToken(1) \o <<"K", "a", "r", "t">>,
    <<"x">> \o PHToken(1) \o TermToken(2) }

SelectTerm(source_term, match_type, allow_compounds) ==
  GlossaryTerm(1, "p1", "de", source_term, TextLos, "must_use", match_type,
               TRUE, allow_compounds, "hyphenate", <<>>)

\* terms whose matches share a start, nest, cross, or lie inside a lock token
SelectTerms ==
  { SelectTerm(SourceGo, "exact", FALSE),
    SelectTerm(<<"G", "o", "K", "a", "r", "t">>, "exact", FALSE),
    SelectTerm(<<"o", "K", "a">>, "exact", FALSE),
    SelectTerm(<<"K", "a", "r", "t">>, "exact", FALSE),
    SelectTerm(SourceGo, "whole_token", TRUE),
    SelectTerm(<<"P", "H">>, "exact", FALSE),
    SelectTerm(<<"T", "E", "R", "M">>, "whole_token", FALSE),
    SelectTerm(<<"1">>, "exact", FALSE),
    SelectTerm(<<"_", "1", RB>>, "exact", FALSE) }

InitSelect ==
  /\ fw = FwIdle
  /\ change = NoChange
  /\ schema = SchemaIdle(DatabaseAt(3))
  /\ EmptyTables
  /\ \E t \in SelectTexts, a \in SelectTerms :
       \E terms \in {<<a>>} \cup { <<a, b>> : b \in SelectTerms \ {a} } :
         glossary = [NoGlossary EXCEPT !.pc = "terms", !.loaded = terms, !.text = t]

NextSelect == FindMatches

SpecSelect == InitSelect /\ [][NextSelect]_vars

(***************************************************************************)
(* Specification SpecMigrateAny: initialize_database, called again and     *)
(* again, on a database file of any version, that of a later release       *)
(* included                                                                *)
(***************************************************************************)
\* a database file written by a release that knows one migration more
LaterDatabase ==
  _set_schema_version(DatabaseAt(Cardinality(MigrationVersions)),
                      Cardinality(MigrationVersions) + 1)

InitMigrateAny ==
  /\ fw = FwIdle
  /\ change = NoChange
  /\ \E db \in {DatabaseAt(version) : version \in 0..Cardinality(MigrationVersions)}
                 \cup {LaterDatabase} :
       schema = SchemaIdle(db)
  /\ glossary = [pc |-> "none", terms |-> {}, project_id |-> "none", locale_code |-> "none",
                include_global |-> FALSE, loaded |-> <<>>, text |-> <<>>, matches |-> <<>>]
  /\ EmptyTables

SpecMigrateAny == InitMigrateAny /\ [][NextMigrate]_vars
(***************************************************************************)
(* Properties                                                              *)
(***************************************************************************)

\* C1 (as stated): for every source string S, reinjecting the protected text
\* into itself gives back S and validation of S against it reports nothing.
C1_RoundTripAnySource ==
  (fw.pc = "validated" /\ fw.T = fw.P.protected)
    => (fw.final = fw.S /\ fw.errors = <<>>)

\* C1 (amended): the round trip is the identity, and validates clean, for
\* every source string that holds no literal PH lock token.
C1_RoundTripTokenFreeSource ==
  (fw.pc = "validated" /\ fw.T = fw.P.protected /\ PHTokenSeq(fw.S) = <<>>)
    => (fw.final = fw.S /\ fw.errors = <<>>)

C1_Witness ==
  /\ fw.pc = "validated"
  /\ fw.T = fw.P.protected
  /\ PHTokenSeq(fw.S) = <<>>
  /\ Len(fw.P.placeholders) = 2
  /\ fw.T # fw.S
  /\ fw.final = fw.S

\* C2 (as stated): validation of the reinjected translator output is empty
\* exactly when the translator left the sequence of PH tokens as it was.
C2_ValidIffTokensUnaltered ==
  fw.pc = "validated"
    => (fw.errors = <<>> <=> PHTokenSeq(fw.T) = PHTokenSeq(fw.P.protected))

\* C2 (amended): validation of the reinjected translator output is empty
\* exactly when the reinjected text carries the same placeholder literals in
\* the same order as the source.
C2_ValidIffSamePlaceholders ==
  fw.pc = "validated"
    => (fw.errors = <<>>
          <=> ValuesOf(extract_placeholders(fw.final))
                = ValuesOf(extract_placeholders(fw.S)))

C2_Witness ==
  /\ fw.pc = "validated"
  /\ Len(fw.P.placeholders) = 2
  /\ PHTokenSeq(fw.T) # PHTokenSeq(fw.P.protected)
  /\ fw.errors = <<>>

(***************************************************************************)
(* Jobs and the lock tokens their providers return (SpecPipeline)          *)
(***************************************************************************)
\* the segments of the finished job for which a provider was called
TranslatedRows ==
  IF run.pc = "done"
    THEN { i \in DOMAIN run.trace :
             run.trace[i].called /\ run.trace[i].translated # NoTokens }
    ELSE {}

RowKey(i) == <<<<jobs[run.job_id].asset_id, i>>, jobs[run.job_id].target_locale>>

HasErrorFlag(key, issue_type) ==
  \E k \in DOMAIN qa_flags[key] :
    qa_flags[key][k].issue_type = issue_type /\ qa_flags[key][k].severity = "error"

Omits(t, token) == CountFrom(t, 1, token) = 0

\* the glossary tokens and the placeholders the pipeline inserted for row i
TermTokensOf(i) ==
  { run.trace[i].expected_enforcements[k].token :
      k \in DOMAIN run.trace[i].expected_enforcements }

PlaceholdersOf(i) == Range(SegmentOf(RowKey(i)[1]).placeholders_json)

Occurrences(values, v) == Cardinality({ k \in DOMAIN values : values[k] = v })

\* the final text carries the literal of placeholder ph less often than the source
FewerInFinal(i, ph) ==
  Occurrences(ValuesOf(extract_placeholders(run.trace[i].candidate_text)), ph.value)
    < Occurrences(ValuesOf(SegmentOf(RowKey(i)[1]).placeholders_json), ph.value)

\* C3 as stated: once a job is done, every row whose translator output
\* omitted an inserted glossary token has a stored glossary_violation error
\* flag, and every row whose translator output omitted an inserted
\* placeholder token has a stored placeholder_mismatch error flag.
C3_TranslatorDropFlagged ==
  \A i \in TranslatedRows :
    /\ (\E token \in TermTokensOf(i) : Omits(run.trace[i].translated, token))
         => HasErrorFlag(RowKey(i), "glossary_violation")
    /\ (\E ph \in PlaceholdersOf(i) : Omits(run.trace[i].translated, ph.token))
         => HasErrorFlag(RowKey(i), "placeholder_mismatch")

\* C3 amended: once a job is done, every row whose last model pass (the
\* reviewer's when the risk score calls for review, else the translator's)
\* omitted an inserted glossary token has a stored glossary_violation error
\* flag, and every row whose last model pass omitted a placeholder token and
\* whose final text carries that placeholder less often than the source has
\* a stored placeholder_mismatch error flag.
C3_LastPassDropFlagged ==
  \A i \in TranslatedRows :
    /\ (\E token \in TermTokensOf(i) : Omits(run.trace[i].output, token))
         => HasErrorFlag(RowKey(i), "glossary_violation")
    /\ (\E ph \in PlaceholdersOf(i) :
          Omits(run.trace[i].output, ph.token) /\ FewerInFinal(i, ph))
         => HasErrorFlag(RowKey(i), "placeholder_mismatch")

\* a done job with a row whose last pass dropped both kinds of token
C3_Witness ==
  \E i \in TranslatedRows :
    /\ \E token \in TermTokensOf(i) : Omits(run.trace[i].output, token)
    /\ \E ph \in PlaceholdersOf(i) :
         Omits(run.trace[i].output, ph.token) /\ FewerInFinal(i, ph)
    /\ HasErrorFlag(RowKey(i), "glossary_violation")
    /\ HasErrorFlag(RowKey(i), "placeholder_mismatch")

\* C4: once a job is done, every row whose final text still carries a
\* glossary lock token has a glossary_violation issue among its QA flags,
\* whatever the expected enforcements were.
C4_SurvivingTermTokenFlagged ==
  \A i \in TranslatedRows :
    TermTokenSeq(run.trace[i].candidate_text) # <<>>
      => HasErrorFlag(RowKey(i), "glossary_violation")

(***************************************************************************)
(* Approvals and the translation memory                                    *)
(***************************************************************************)
\* the positions of the approval calls for one (segment, locale)
ApprovalsOf(log, segment_id, target_locale) ==
  { n \in DOMAIN log : log[n].segment_id = segment_id /\ log[n].target_locale = target_locale }

Last(positions) == CHOOSE n \in positions : \A m \in positions : m <= n

SamePair(r1, r2) == r1.segment_id = r2.segment_id /\ r1.target_locale = r2.target_locale

C5_Step ==
  /\ \A r1, r2 \in approved_translations' : SamePair(r1, r2) => r1 = r2
  /\ \A r \in approved_translations :
       \E r2 \in approved_translations' : r2.id = r.id /\ SamePair(r, r2)
  /\ \A n \in DOMAIN approvals' :
       \E r \in approved_translations' :
         /\ SamePair(r, approvals'[n])
         /\ r.final_text =
              approvals'[Last(ApprovalsOf(approvals', r.segment_id, r.target_locale))].final_text

\* C5: every step leaves at most one approved row per (segment, target
\* locale), keeps the id of every row already stored, and leaves each
\* approved pair with a row holding the text of its latest approval.
C5_ApprovalUpsertsOneRow == [][C5_Step]_vars

\* a pair approved twice with different texts, its one row holding the later
C5_Witness ==
  \E n, m \in DOMAIN approvals :
    /\ n < m
    /\ SamePair(approvals[n], approvals[m])
    /\ approvals[n].final_text # approvals[m].final_text
    /\ m = Last(ApprovalsOf(approvals, approvals[m].segment_id, approvals[m].target_locale))
    /\ \E r \in approved_translations :
         SamePair(r, approvals[m]) /\ r.final_text = approvals[m].final_text

SourceOf(segs, segment_id) == (CHOOSE s \in segs : s.id = segment_id).source_text

\* the approval calls of the log that share the TM key of call n
SameKeyApprovals(log, segs, n) ==
  { m \in DOMAIN log :
      /\ log[m].target_locale = log[n].target_locale
      /\ normalize_source_text(SourceOf(segs, log[m].segment_id))
           = normalize_source_text(SourceOf(segs, log[n].segment_id)) }

\* the tm_entries rows under the TM key of approval call n
KeyRows(tm, log, segs, n) ==
  { t \in tm :
      /\ t.project_id = "p1" /\ t.source_locale = "en"
      /\ t.target_locale = log[n].target_locale
      /\ t.normalized_source_hash
           = normalized_source_hash(SourceOf(segs, log[n].segment_id)) }

SameTMKey(t1, t2) ==
  /\ t1.project_id = t2.project_id /\ t1.source_locale = t2.source_locale
  /\ t1.target_locale = t2.target_locale
  /\ t1.normalized_source_hash = t2.normalized_source_hash

C6_Step ==
  /\ \A n \in DOMAIN approvals' :
       /\ Cardinality(KeyRows(tm_entries', approvals', segments', n)) = 1
       /\ \A t \in KeyRows(tm_entries', approvals', segments', n) :
            /\ t.origin = "approved" /\ t.quality_tag = "trusted"
            /\ t.target_text =
                 approvals'[Last(SameKeyApprovals(approvals', segments', n))].final_text
  /\ \A t \in tm_entries : \E t2 \in tm_entries' : t2.id = t.id /\ SameTMKey(t, t2)

\* C6: after every step each key (project, source locale, target locale,
\* normalized source) approved at least once has exactly one tm_entries row,
\* of origin approved and quality trusted, holding the final text of the
\* latest approval for that key, and every row already stored keeps its id
\* and key.
C6_OneTrustedRowPerApprovedKey == [][C6_Step]_vars

\* two segments of equal normalized source approved with different texts,
\* the key's one row holding the later text
C6_Witness ==
  \E n, m \in DOMAIN approvals :
    /\ n < m
    /\ approvals[n].segment_id # approvals[m].segment_id
    /\ SourceOf(segments, approvals[n].segment_id) # SourceOf(segments, approvals[m].segment_id)
    /\ approvals[n].final_text # approvals[m].final_text
    /\ m = Last(SameKeyApprovals(approvals, segments, n))
    /\ \A t \in KeyRows(tm_entries, approvals, segments, n) :
         t.target_text = approvals[m].final_text
    /\ Cardinality(KeyRows(tm_entries, approvals, segments, n)) = 1

C7_Step ==
  approvals' = approvals =>
    /\ { t.id : t \in tm_entries' } = { t.id : t \in tm_entries }
    /\ \A t \in tm_entries : \A t2 \in tm_entries' :
         t2.id = t.id => t2.source_text = t.source_text /\ t2.target_text = t.target_text

\* C7: a step that writes no approval (an import, a candidate upsert, a step
\* of a translation or change job, its rollback or its end) creates no
\* tm_entries row and leaves the source and target text of every row as
\* they were.
C7_OnlyApprovalsTeach == [][C7_Step]_vars

\* a finished job served a segment from the memory, an edit is stored, and
\* the memory still holds what the approval wrote
C7_Witness ==
  /\ \E j \in DOMAIN jobs : jobs[j].status = "done"
  /\ \E t \in tm_entries : t.use_count > 0 /\ t.target_text = approvals[Len(approvals)].final_text
  /\ \E k \in SegmentKeys : \E p \in DOMAIN translation_candidates[k] :
       translation_candidates[k][p].candidate_type = "edited"

\* the approval calls for the TM key of a segment and a target locale
ApprovalsOfKey(log, segs, seg, target_locale) ==
  { m \in DOMAIN log :
      /\ log[m].target_locale = target_locale
      /\ normalize_source_text(SourceOf(segs, log[m].segment_id))
           = normalize_source_text(seg.source_text) }

\* the rows of one (segment, locale) hold a tm_exact candidate of the given
\* text, and it is the latest candidate
LatestIsExact(rows, candidate_text) ==
  /\ \E p \in DOMAIN rows :
       rows[p].candidate_type = "tm_exact" /\ rows[p].candidate_text = candidate_text
  /\ get_latest_candidate(rows).candidate_type = "tm_exact"
  /\ get_latest_candidate(rows).candidate_text = candidate_text

C8_Step ==
  (run.pc = "running" /\ run'.pc = "done" /\ jobs[run.job_id].job_type = "mock_translate") =>
    \A seg \in { s \in segments : s.asset_id = jobs[run.job_id].asset_id } :
      ApprovalsOfKey(approvals, segments, seg, jobs[run.job_id].target_locale) # {} =>
        LatestIsExact(translation_candidates[<<seg.id, jobs[run.job_id].target_locale>>],
          approvals[Last(ApprovalsOfKey(approvals, segments, seg,
                                        jobs[run.job_id].target_locale))].final_text)

\* C8: when a translation job ends, every segment of its asset whose
\* normalized source was approved before for the job's locale has a tm_exact
\* candidate with the latest approved text of that key, and that candidate
\* is the latest candidate of the segment.
C8_ApprovedSourceServedFromMemory == [][C8_Step]_vars

(***************************************************************************)
(* Exact lookup                                                            *)
(***************************************************************************)
\* what find_exact returns for the spellings of a base
ExactResults(base, target_locale) ==
  { find_exact(tm_entries, "p1", "en", target_locale, q) : q \in SpellingsOf(base) }

\* C9: find_exact returns one and the same result for all texts that differ
\* only in letter case, in leading or trailing whitespace or in the length
\* of whitespace runs, and that result is the row upsert_tm_entry stored
\* for a source text among them.
C9_FindExactIgnoresCaseAndSpacing ==
  \A base \in TMBases, target_locale \in Locales :
    /\ Cardinality(ExactResults(base, target_locale)) = 1
    /\ \A r \in tm_entries :
         (r.target_locale = target_locale /\ r.source_text \in SpellingsOf(base))
           => ExactResults(base, target_locale) = {r}

\* a row written under one spelling, written again under another, and found
\* under a third
C9_Witness ==
  \E r \in tm_entries, base \in TMBases :
    /\ r.source_text \in SpellingsOf(base)
    /\ r.source_text # Lower(r.source_text)
    /\ r.updated_at > r.created_at
    /\ r.use_count > 0
    /\ \E q \in SpellingsOf(base) :
         /\ q # r.source_text /\ Len(q) > Len(r.source_text)
         /\ find_exact(tm_entries, "p1", "en", r.target_locale, q) = r

(***************************************************************************)
(* Candidates                                                              *)
(***************************************************************************)
TypesOf(rows) == { rows[p].candidate_type : p \in DOMAIN rows }

\* the rows hold what the generation of the trace entry produced, written
\* at the given time
HoldsGeneration(rows, entry, generated_at) ==
  \E p \in DOMAIN rows :
    /\ rows[p].candidate_type = entry.candidate_type
    /\ rows[p].candidate_text = entry.candidate_text
    /\ rows[p].score = entry.score
    /\ rows[p].model_info = entry.model_info
    /\ rows[p].generated_at = generated_at

\* the step is a translation job writing the candidate of one segment
TranslationWrite ==
  /\ run.pc = "running" /\ run'.pc = "running" /\ run'.idx = run.idx + 1
  /\ jobs[run.job_id].job_type = "mock_translate"
  /\ run'.trace[Len(run'.trace)].called

RunKey == <<<<jobs[run.job_id].asset_id, run.idx>>, jobs[run.job_id].target_locale>>

C10_Step ==
  /\ \A k \in SegmentKeys :
       \A p, q \in DOMAIN translation_candidates'[k] :
         translation_candidates'[k][p].candidate_type
           = translation_candidates'[k][q].candidate_type => p = q
  /\ TranslationWrite =>
       /\ HoldsGeneration(translation_candidates'[RunKey],
                          run'.trace[Len(run'.trace)], clock)
       /\ TypesOf(translation_candidates'[RunKey])
            = TypesOf(translation_candidates[RunKey])
                \cup {run'.trace[Len(run'.trace)].candidate_type}

\* C10: every step leaves at most one candidate row per (segment, target
\* locale, candidate type), and a translation job's write leaves the row of
\* the generated type holding the new text, score, model info and
\* generated_at, the rows of the other types staying.
C10_OneCandidatePerType == [][C10_Step]_vars

\* two finished translation jobs over one asset and locale with no approval
\* in between: the second overwrote the rows of the first, next to a
\* baseline of another type
C10_Witness ==
  /\ approvals = <<>>
  /\ Len(jobs) = 2
  /\ \A j \in DOMAIN jobs : jobs[j].status = "done" /\ jobs[j].job_type = "mock_translate"
  /\ jobs[1].asset_id = jobs[2].asset_id
  /\ \E k \in SegmentKeys :
       /\ k[1][1] = jobs[1].asset_id
       /\ Cardinality(TypesOf(translation_candidates[k])) = 2
       /\ Len(translation_candidates[k]) = 2

(***************************************************************************)
(* Job lifecycle                                                           *)
(***************************************************************************)
Terminal == {"done", "failed"}

StatusMoves == {<<"queued", "running">>, <<"running", "done">>, <<"running", "failed">>}

\* what one jobs row looks like in every state
JobRowShape(job) ==
  /\ job.status \in {"queued", "running"} \cup Terminal
  /\ job.status # "queued" => job.started_at # 0
  /\ job.finished_at # 0 <=> job.status \in Terminal

C11_Step ==
  /\ Len(jobs') >= Len(jobs)
  /\ \A j \in DOMAIN jobs' : JobRowShape(jobs'[j])
  /\ \A j \in DOMAIN jobs :
       /\ jobs'[j].status = jobs[j].status \/ <<jobs[j].status, jobs'[j].status>> \in StatusMoves
       /\ jobs[j].started_at # 0 => jobs'[j].started_at = jobs[j].started_at
       /\ jobs[j].status \in Terminal => jobs'[j] = jobs[j]
  /\ \A j \in DOMAIN jobs' \ DOMAIN jobs : jobs'[j].status = "queued"

\* C11: a jobs row starts queued and its status only moves queued -> running
\* -> done or failed; done and failed rows never change again, started_at is
\* set from running on and keeps its value, and finished_at is set exactly
\* on done and failed rows.
C11_JobLifecycle == [][C11_Step]_vars

\* a job started at second 1 and finished at second 2, next to a failed one
C11_Witness ==
  /\ Len(jobs) >= 2
  /\ \E i, j \in DOMAIN jobs :
       /\ jobs[i].status = "done" /\ jobs[j].status = "failed"
       /\ jobs[i].created_at = jobs[i].started_at
       /\ jobs[i].started_at < jobs[i].finished_at

\* C12: once a run_*_job call has returned or raised, every jobs row is done
\* or failed.
C12_RowsSettledAfterCall ==
  ~Busy => \A j \in DOMAIN jobs : jobs[j].status \in Terminal

(***************************************************************************)
(* A failing job                                                           *)
(***************************************************************************)
\* the step is the except branch of a run_*_job call
JobFailing == run.pc = "running" /\ run'.pc = "failed"

\* the keys of the segments the loop has passed before the current one
PassedKeys ==
  {k \in SegmentKeys : /\ k[1][1] = jobs[run.job_id].asset_id
                       /\ k[2] = jobs[run.job_id].target_locale
                       /\ k[1][2] < run.idx}

C13_Step ==
  JobFailing =>
    /\ \A k \in PassedKeys :
         /\ translation_candidates'[k] = translation_candidates[k]
         /\ qa_flags'[k] = qa_flags[k]
    /\ jobs'[run.job_id].status = "failed"
    /\ jobs'[run.job_id].summary # "none"

\* C13: when a job fails while processing its k-th segment, the candidates
\* and QA flags written for segments 1..k-1 stay as the job wrote them, and
\* the jobs row becomes failed with a summary.
C13_EarlierSegmentsStayCommitted == [][C13_Step]_vars

(***************************************************************************)
(* A finished job                                                          *)
(***************************************************************************)
\* the step is the last update_job_status(done) of a run_*_job call
JobFinishing(job_type) ==
  run.pc = "running" /\ run'.pc = "done" /\ jobs[run.job_id].job_type = job_type

\* the key of the position-th segment of the running job's asset
JobKey(position) ==
  <<<<jobs[run.job_id].asset_id, position>>, jobs[run.job_id].target_locale>>

JobKeys == {JobKey(position) : position \in DOMAIN run.trace}

C14_Step ==
  JobFinishing("mock_translate") =>
    /\ \A position \in DOMAIN run.trace :
         qa_flags'[JobKey(position)]
           = IF run.trace[position].called THEN run.trace[position].qa_issues ELSE <<>>
    /\ \A k \in SegmentKeys \ JobKeys : qa_flags'[k] = run.saved[3][k]

\* C14: when run_mock_translation_job finishes for a locale, the QA flags
\* stored for each segment of the asset and that locale are the issues this
\* run computed for the segment (none for an empty source), and the flags
\* of every other locale and asset are those from before the job.
C14_FlagsAreThisRunsIssues == [][C14_Step]_vars

\* a variant A job and then a translation job finished over one asset and
\* locale: the stale_source_change flag of the changed segment is gone, the
\* placeholder error of the other segment is stored
C14_Witness ==
  /\ Len(jobs) = 2
  /\ jobs[1].job_type = "change_variant_a" /\ jobs[2].job_type = "mock_translate"
  /\ jobs[1].status = "done" /\ jobs[2].status = "done"
  /\ jobs[1].asset_id = jobs[2].asset_id /\ jobs[1].target_locale = jobs[2].target_locale
  /\ \E s \in segments :
       /\ s.asset_id = jobs[2].asset_id /\ IsChanged(s)
       /\ qa_flags[<<s.id, jobs[2].target_locale>>] = <<>>
  /\ \E k \in SegmentKeys :
       /\ k[1][1] = jobs[2].asset_id /\ k[2] = jobs[2].target_locale
       /\ \E f \in DOMAIN qa_flags[k] : qa_flags[k][f].severity = "error"

\* the positions of the segments of the running job's asset whose source is
\* not empty after the trim
NonEmptyPositions ==
  {position \in DOMAIN run.trace :
     Strip(SegmentOf(<<jobs[run.job_id].asset_id, position>>).source_text) # <<>>}

\* the rows hold the candidate the pass generated
HoldsCandidateOf(rows, entry) ==
  \E p \in DOMAIN rows :
    /\ rows[p].candidate_type = entry.candidate_type
    /\ rows[p].candidate_text = entry.candidate_text
    /\ rows[p].score = entry.score
    /\ rows[p].model_info = entry.model_info

C15_Step ==
  JobFinishing("mock_translate") =>
    /\ \A position \in NonEmptyPositions :
         /\ run.trace[position].called
         /\ HoldsCandidateOf(translation_candidates'[JobKey(position)], run.trace[position])
    /\ run'.counts.processed = Cardinality(NonEmptyPositions)

\* C15: when run_mock_translation_job finishes, every segment of the asset
\* with a non-empty source has the candidate this run generated for it,
\* error-severity issues or not, and the processed count is the number of
\* these segments.
C15_CandidateWrittenRegardless == [][C15_Step]_vars

\* a finished translation job left a candidate of its own next to an
\* error-severity flag on one segment
C15_Witness ==
  \E j \in DOMAIN jobs :
    /\ jobs[j].status = "done" /\ jobs[j].job_type = "mock_translate"
    /\ \A i \in DOMAIN jobs : jobs[i].asset_id = jobs[j].asset_id => i = j
    /\ \E k \in SegmentKeys :
         /\ k[1][1] = jobs[j].asset_id /\ k[2] = jobs[j].target_locale
         /\ \E f \in DOMAIN qa_flags[k] : qa_flags[k][f].severity = "error"
         /\ \E p \in DOMAIN translation_candidates[k] :
              translation_candidates[k][p].candidate_type \in {"llm_draft", "llm_reviewed"}

(***************************************************************************)
(* The change jobs                                                         *)
(***************************************************************************)
HasCandidateOfTypes(rows, candidate_types) ==
  \E p \in DOMAIN rows : rows[p].candidate_type \in candidate_types

HasFlagOfType(flags, flag_type) ==
  \E f \in DOMAIN flags : flags[f].issue_type = flag_type

\* the segment is changed and classify_change decides as given
ChangedAs(seg, decision) ==
  IsChanged(seg) /\ classify_change(seg.source_text_old, seg.source_text).decision = decision

VariantBArtefacts(seg, rows, flags) ==
  /\ HasCandidateOfTypes(rows, CHANGE_PROPOSED_CANDIDATE_TYPES) <=> ChangedAs(seg, "UPDATE")
  /\ HasFlagOfType(flags, "stale_source_change") <=> IsChanged(seg)
  /\ HasFlagOfType(flags, "impact_flagged") <=> ChangedAs(seg, "FLAG")

C16_Step ==
  JobFinishing("change_variant_b") =>
    \A position \in DOMAIN run.trace :
      VariantBArtefacts(SegmentOf(JobKey(position)[1]),
                        translation_candidates'[JobKey(position)],
                        qa_flags'[JobKey(position)])

\* C16: when run_change_variant_b_job finishes for a locale, every segment
\* of the asset has a change_proposed or change_flagged_proposed candidate
\* for the locale iff it is changed and classified UPDATE, a
\* stale_source_change flag iff it is changed, and an impact_flagged flag
\* iff it is changed and classified FLAG, whatever earlier runs left.
C16_VariantBArtefacts == [][C16_Step]_vars

\* variant A and then variant B finished over one asset and locale: the
\* proposal variant A wrote for a segment classified KEEP is gone, its
\* stale_source_change flag is there
C16_Witness ==
  /\ Len(jobs) = 2
  /\ jobs[1].job_type = "change_variant_a" /\ jobs[2].job_type = "change_variant_b"
  /\ jobs[1].status = "done" /\ jobs[2].status = "done"
  /\ jobs[1].asset_id = jobs[2].asset_id /\ jobs[1].target_locale = jobs[2].target_locale
  /\ \E s \in segments :
       /\ s.asset_id = jobs[2].asset_id /\ ChangedAs(s, "KEEP")
       /\ ~HasCandidateOfTypes(translation_candidates[<<s.id, jobs[2].target_locale>>],
                               CHANGE_PROPOSED_CANDIDATE_TYPES)
       /\ HasFlagOfType(qa_flags[<<s.id, jobs[2].target_locale>>], "stale_source_change")

\* the number of segments of the running job's asset that are changed and
\* classified as one of the decisions
ChangedCount(decisions) ==
  Cardinality({position \in DOMAIN run.trace :
                 \E decision \in decisions : ChangedAs(SegmentOf(JobKey(position)[1]), decision)})

VariantBCounts(counts) ==
  /\ counts.changed_rows = counts.keep + counts.update + counts.flag
  /\ counts.changed_rows = ChangedCount({"KEEP", "UPDATE", "FLAG"})
  /\ counts.keep = ChangedCount({"KEEP"})
  /\ counts.update = ChangedCount({"UPDATE"})
  /\ counts.flag = ChangedCount({"FLAG"})

C17_Step ==
  JobFinishing("change_variant_b") =>
    /\ VariantBCounts(run'.counts)
    /\ jobs'[run.job_id].summary_counts = run'.counts

\* C17: when run_change_variant_b_job finishes, the counts it returns and
\* the summary_counts it stored agree and satisfy changed_rows = keep +
\* update + flag, changed_rows being the number of segments whose previous
\* source is non-null and differs from the source after the trim; a segment
\* without previous source is counted nowhere.
C17_VariantBCounts == [][C17_Step]_vars

\* a finished variant B job over a file with a changed row and a row
\* without previous source
C17_Witness ==
  \E j \in DOMAIN jobs :
    /\ jobs[j].status = "done" /\ jobs[j].job_type = "change_variant_b"
    /\ jobs[j].summary_counts.changed_rows = 1
    /\ jobs[j].summary_counts.keep = 1
    /\ \E s \in segments : s.asset_id = jobs[j].asset_id /\ s.source_text_old = NoText

(***************************************************************************)
(* classify_change                                                         *)
(***************************************************************************)
Distance(a, b) == IF a >= b THEN a - b ELSE b - a

\* the change from old_value to new_value is above percent% of old_value
ChangeAbove(old_value, new_value, percent) ==
  100 * Distance(old_value, new_value) > percent * old_value

\* the rule of the list that applies first to the pair of texts
FirstRule(old, new) ==
  CASE _normalize_change_text(old) = _normalize_change_text(new) -> <<"KEEP", 98>>
    [] /\ _normalize_change_text(old) # _normalize_change_text(new)
       /\ _change_placeholder_signature(old) # _change_placeholder_signature(new)
         -> <<"FLAG", 25>>
    [] /\ _normalize_change_text(old) # _normalize_change_text(new)
       /\ _change_placeholder_signature(old) = _change_placeholder_signature(new)
       /\ _strip_change_punctuation(_normalize_change_text(old))
            = _strip_change_punctuation(_normalize_change_text(new))
         -> <<"KEEP", 92>>
    [] OTHER ->
         IF \/ ChangeAbove(Len(_normalize_change_text(old)),
                           Len(_normalize_change_text(new)), 30)
            \/ ChangeAbove(WordCount(_normalize_change_text(old)),
                           WordCount(_normalize_change_text(new)), 20)
           THEN <<"UPDATE", 78>> ELSE <<"FLAG", 45>>

\* C18: classify_change returns for every pair of texts the decision and
\* confidence of the first rule that applies: equal after whitespace
\* normalization KEEP 98, differing placeholder signature FLAG 25, equal
\* after stripping punctuation KEEP 92, length change above 30% or word
\* count change above 20% of the old text UPDATE 78, else FLAG 45.
C18_ClassifyChangePrecedence ==
  change.pc = "returned" =>
    <<change.classification.decision, change.classification.confidence>>
      = FirstRule(change.old, change.new)

\* a pair whose placeholder signatures differ although the texts are equal
\* once punctuation is stripped: the signature rule wins
C18_Witness ==
  /\ change.pc = "returned"
  /\ change.old = <<"{", "0", "}">> /\ change.new = <<"0">>
  /\ change.classification.decision = "FLAG"

\* the rows hold a change_proposed candidate with the text the pass generated
HoldsProposalOf(rows, entry) ==
  \E p \in DOMAIN rows :
    /\ rows[p].candidate_type = "change_proposed"
    /\ rows[p].candidate_text = entry.candidate_text

C19_Step ==
  JobFinishing("change_variant_a") =>
    /\ \A position \in DOMAIN run.trace :
         IF IsChanged(SegmentOf(JobKey(position)[1]))
           THEN /\ run.trace[position].called
                /\ HoldsProposalOf(translation_candidates'[JobKey(position)],
                                   run.trace[position])
                /\ qa_flags'[JobKey(position)]
                     = <<StaleSourceIssue("UPDATE", 50)>> \o run.trace[position].qa_issues
           ELSE /\ ~run.trace[position].called
                /\ translation_candidates'[JobKey(position)] = run.saved[2][JobKey(position)]
                /\ qa_flags'[JobKey(position)] = run.saved[3][JobKey(position)]
    /\ run'.counts.proposals_created = run'.counts.changed_rows
    /\ run'.counts.changed_rows = ChangedCount({"KEEP", "UPDATE", "FLAG"})
    /\ jobs'[run.job_id].summary_counts = run'.counts

\* C19: when run_change_variant_a_job finishes for a locale, this run wrote
\* a change_proposed candidate and a stale_source_change flag for exactly the
\* segments whose previous source is non-null and differs from the source
\* after the trim, the candidates and flags of the other segments are those
\* from before the job, and proposals_created equals changed_rows.
C19_VariantATouchesChangedOnly == [][C19_Step]_vars

\* a translation job and then a variant A job finished over one asset and
\* locale: the unchanged segment keeps the error flag of the first job, the
\* changed one has its proposal and its stale_source_change flag
C19_Witness ==
  /\ Len(jobs) = 2
  /\ jobs[1].job_type = "mock_translate" /\ jobs[2].job_type = "change_variant_a"
  /\ jobs[1].status = "done" /\ jobs[2].status = "done"
  /\ jobs[1].asset_id = jobs[2].asset_id /\ jobs[1].target_locale = jobs[2].target_locale
  /\ jobs[2].summary_counts.proposals_created = 1
  /\ \E s \in segments :
       /\ s.asset_id = jobs[2].asset_id /\ ~IsChanged(s)
       /\ \E f \in DOMAIN qa_flags[<<s.id, jobs[2].target_locale>>] :
            qa_flags[<<s.id, jobs[2].target_locale>>][f].severity = "error"
  /\ \E s \in segments :
       /\ s.asset_id = jobs[2].asset_id /\ IsChanged(s)
       /\ HasCandidateOfTypes(translation_candidates[<<s.id, jobs[2].target_locale>>],
                              {"change_proposed"})
       /\ HasFlagOfType(qa_flags[<<s.id, jobs[2].target_locale>>], "stale_source_change")

\* the step is a variant A job writing the proposal of one segment
ProposalWrite ==
  /\ run.pc = "running" /\ run'.pc = "running" /\ run'.idx = run.idx + 1
  /\ jobs[run.job_id].job_type = "change_variant_a"
  /\ run'.trace[Len(run'.trace)].called

\* the change_proposed row of the segment just written has the score
ProposalScored(score) ==
  /\ HasCandidateOfTypes(translation_candidates'[RunKey], {"change_proposed"})
  /\ \A p \in DOMAIN translation_candidates'[RunKey] :
       translation_candidates'[RunKey][p].candidate_type = "change_proposed"
         => translation_candidates'[RunKey][p].score = score

\* the score of the claim as stated: two values
TwoValuedScore(entry) == IF entry.candidate_type = "tm_exact" THEN 100 ELSE 50

\* and with the fuzzy match score kept
ThreeValuedScore(entry) ==
  IF entry.candidate_type = "tm_exact" THEN 100
  ELSE IF entry.candidate_type = "tm_fuzzy" THEN entry.score ELSE 50

\* C20 as stated: a change_proposed candidate written by variant A has score
\* 1.0 after a tm_exact hit and 0.5 in every other case.
C20_ScoreOneOrHalf ==
  [][ProposalWrite => ProposalScored(TwoValuedScore(run'.trace[Len(run'.trace)]))]_vars

\* C20: a change_proposed candidate written by variant A has score 1.0 after
\* a tm_exact hit, the match score of the hit (at least the fuzzy threshold)
\* after a tm_fuzzy hit, and 0.5 after an LLM draft or review.
C20_ScoreKeepsFuzzyMatch ==
  [][ProposalWrite =>
       /\ ProposalScored(ThreeValuedScore(run'.trace[Len(run'.trace)]))
       /\ run'.trace[Len(run'.trace)].candidate_type = "tm_fuzzy"
            => run'.trace[Len(run'.trace)].score >= TM_FUZZY_THRESHOLD]_vars

\* a variant A job stored a proposal taken from a fuzzy memory hit, with the
\* score of the match
C20_Witness ==
  /\ run.pc = "running" /\ jobs[run.job_id].job_type = "change_variant_a"
  /\ \E position \in DOMAIN run.trace :
       /\ run.trace[position].called
       /\ run.trace[position].candidate_type = "tm_fuzzy"
       /\ \E p \in DOMAIN translation_candidates[JobKey(position)] :
            /\ translation_candidates[JobKey(position)][p].candidate_type = "change_proposed"
            /\ translation_candidates[JobKey(position)][p].score = run.trace[position].score
            /\ translation_candidates[JobKey(position)][p].score \notin {50, 100}
(***************************************************************************)
(* Risk score and reviewer gating (SpecProviders)                          *)
(***************************************************************************)
\* the passes of the current run that generated a candidate through the
\* providers (no TM hit)
ProviderPositions ==
  { position \in DOMAIN run.trace :
      /\ run.trace[position].called
      /\ run.trace[position].candidate_type \in {"llm_draft", "llm_reviewed"} }

RiskFeatures == {"char_limit", "placeholder", "angle_tag", "glossary", "short"}

RiskWeight(feature) ==
  CASE feature = "char_limit" -> 3
    [] feature = "placeholder" -> 2
    [] feature = "angle_tag" -> 2
    [] feature = "glossary" -> 1
    [] OTHER -> 2

\* the features of a segment that add to its risk
FeaturesOf(seg, placeholders, enforced) ==
  { feature \in RiskFeatures :
      CASE feature = "char_limit" -> seg.char_limit # 0
        [] feature = "placeholder" -> Len(placeholders) > 0
        [] feature = "angle_tag" ->
             \E k \in DOMAIN placeholders : placeholders[k].type = "angle_tag"
        [] feature = "glossary" -> Len(enforced.expected_enforcements) > 1
        [] OTHER -> Len(Strip(seg.source_text)) < 12 }

RECURSIVE SumWeights(_)
SumWeights(features) ==
  IF features = {} THEN 0
  ELSE LET feature == CHOOSE f \in features : TRUE
       IN RiskWeight(feature) + SumWeights(features \ {feature})

StatedRiskWith(seg, protected_source) ==
  SumWeights(FeaturesOf(seg, protected_source.placeholders,
                        enforce_must_use(protected_source.protected, GlossaryTerms)))

StatedRisk(seg) == StatedRiskWith(seg, protect_text(seg.source_text))

\* the mock reviewer answers with its task in front of the draft
ReviewerInvoked(entry) == HasAt(entry.output, 1, <<"[">> \o TaskChars("reviewer"))

RiskGate(entry, risk) ==
  /\ entry.model_info.risk_score = risk
  /\ entry.candidate_type = "llm_reviewed" <=> risk >= 5
  /\ entry.candidate_type = "llm_draft" <=> risk < 5
  /\ ReviewerInvoked(entry) <=> risk >= 5

\* C21: for a segment with no TM hit the risk score is 3 for a char limit
\* plus 2 for any placeholder plus 2 for an angle-tag placeholder plus 1 for
\* more than one glossary match plus 2 for a trimmed source shorter than 12
\* characters; the reviewer is invoked and the candidate type is llm_reviewed
\* iff that score is at least 5, otherwise the type is llm_draft.
C21_RiskScoreGatesReviewer ==
  \A position \in ProviderPositions :
    RiskGate(run.trace[position],
             StatedRisk(SegmentOf(<<jobs[run.job_id].asset_id, position>>)))

\* a reviewed candidate at the threshold that owes its last point to a
\* second glossary match
C21_Witness ==
  \E position \in ProviderPositions :
    /\ run.trace[position].candidate_type = "llm_reviewed"
    /\ run.trace[position].model_info.risk_score = 5
    /\ Len(run.trace[position].expected_enforcements) > 1
    /\ ReviewerInvoked(run.trace[position])

(***************************************************************************)
(* Provider fallback (SpecProviders)                                       *)
(***************************************************************************)
\* a run whose provider fell back is running or done, never failed
FallbackRunsOn ==
  run.fallback # NoFallback =>
    /\ run.pc \in {"running", "done"}
    /\ jobs[run.job_id].status = run.pc

RecordsFallbackFrom(entry) ==
  /\ run.fallback.translator # "none" =>
       entry.model_info.fallback_from = run.fallback.translator
  /\ run.fallback.reviewer # "none" /\ entry.candidate_type = "llm_reviewed" =>
       entry.model_info.fallback_from = run.fallback.reviewer

\* C27 as stated: with strict provider selection off, a job whose provider
\* lacks its credential does not fail for that reason, and every candidate
\* generated through that provider has fallback_from in its model info.
C27_FallbackFromRecorded ==
  /\ FallbackRunsOn
  /\ \A position \in ProviderPositions : RecordsFallbackFrom(run.trace[position])

RecordsFallback(entry) ==
  IF entry.candidate_type = "llm_reviewed"
    THEN /\ entry.model_info.translator_fallback_from = run.fallback.translator
         /\ entry.model_info.fallback_from = run.fallback.reviewer
    ELSE entry.model_info.fallback_from = run.fallback.translator

\* C27, amended: with strict provider selection off, a job whose provider
\* lacks its credential does not fail for that reason, and every candidate
\* generated through that provider names the provider first selected in its
\* model info: under fallback_from, but a reviewed candidate names the
\* translator's under translator_fallback_from and keeps fallback_from for
\* the reviewer's.
C27_FallbackRecordedPerTask ==
  /\ FallbackRunsOn
  /\ \A position \in ProviderPositions : RecordsFallback(run.trace[position])

\* a finished job whose translator fell back and whose reviewer did not,
\* with a reviewed candidate
C27_Witness ==
  /\ run.pc = "done"
  /\ run.fallback = [translator |-> "openai", reviewer |-> "none"]
  /\ \E position \in ProviderPositions :
       /\ run.trace[position].candidate_type = "llm_reviewed"
       /\ run.trace[position].model_info.translator_fallback_from = "openai"
       /\ run.trace[position].model_info.fallback_from = "none"
       /\ \E p \in DOMAIN translation_candidates[JobKey(position)] :
            translation_candidates[JobKey(position)][p].model_info
              = run.trace[position].model_info

(***************************************************************************)
(* The mock provider and the lock tokens (SpecProviders)                   *)
(***************************************************************************)
\* the answer carries the tokens of the prompt, and the pass found no issue
EchoesTokens(entry, protected_source) ==
  /\ PHTokenSeq(entry.translated) = PHTokenSeq(protected_source.protected)
  /\ Len(TermTokenSeq(entry.translated)) = Len(entry.expected_enforcements)
  /\ validate_placeholders(protected_source.original, entry.candidate_text) = <<>>
  /\ entry.qa_issues = <<>>

\* C28: the mock provider echoes every PH and TERM token of its prompt
\* unchanged, whatever the length of the prompt, so that a job run with the
\* mock provider preserves the placeholders of every segment and leaves no
\* QA flags.
C28_MockEchoesTokens ==
  \A position \in ProviderPositions :
    EchoesTokens(run.trace[position],
                 protect_text(SegmentOf(<<jobs[run.job_id].asset_id, position>>).source_text))

(***************************************************************************)
(* Approvals with an empty final text (SpecApprove)                        *)
(***************************************************************************)
\* the step is an approval call whose final text is empty after the trim
BlankApproval ==
  /\ Len(approvals') = Len(approvals) + 1
  /\ Strip(approvals'[Len(approvals')].final_text) = <<>>

C22_Step == BlankApproval => UNCHANGED <<approved_translations, tm_entries>>

\* C22: an approval whose final text is empty, or empty after the trim, is
\* rejected up front: it creates or changes no approved_translations row and
\* no tm_entries row.
C22_BlankApprovalRejected == [][C22_Step]_vars

(***************************************************************************)
(* Schema migrations (SpecMigrate)                                         *)
(***************************************************************************)
LatestSchema(db) ==
  /\ get_schema_version(db) = 3
  /\ "tm_fts" \in db.tables
  /\ "source_text_old" \in db.segment_columns

\* a recorded version has the tables and columns of its migrations
VersionBacked(db) ==
  /\ db.version >= 1 => \A k \in DOMAIN V1Tables : V1Tables[k] \in db.tables
  /\ db.version >= 2 => "tm_fts" \in db.tables
  /\ db.version >= 3 => "source_text_old" \in db.segment_columns

ImportCall == import_summary' # import_summary

\* the invalid inputs of an import
InvalidImport(call) ==
  \/ call.file_type \notin {"xlsx", "csv"}
  \/ call.mapping.source_new = "none"
  \/ \E column \in {call.mapping.source_new, call.mapping.source_old, call.mapping.target,
                    call.mapping.key, call.mapping.char_limit} :
       column # "none" /\ column \notin call.frame.columns
  \/ /\ call.mapping.mode \in {"change_source_update", "change file (old/new source)"}
     /\ call.mapping.source_old = "none"
  \/ call.mapping.target_locale # "none" /\ call.mapping.target = "none"
  \/ call.mapping.mode
       \notin {"lp", "lp (single source)", "change_source_update",
               "change file (old/new source)"}

C24_Step ==
  ImportCall /\ InvalidImport(import_summary') =>
    /\ import_summary'.error # "none"
    /\ UNCHANGED <<assets, segments, translation_candidates, schema_profiles>>

\* C24: an import whose input is invalid (unsupported file type, missing or
\* unknown mapped column, mode change_source_update without source_old,
\* target_locale without target, unsupported mode) fails with an error
\* before anything is written: no asset, segment, candidate or schema
\* profile is added.
C24_InvalidImportWritesNothing == [][C24_Step]_vars

\* an import that names a target locale and no target column was refused
\* with a segment and a profile already stored
C24_Witness ==
  /\ import_summary.error = "target required"
  /\ import_summary.mapping.target_locale = "de"
  /\ Cardinality(assets) = 1 /\ segments # {} /\ schema_profiles # {}

\* the positions (from 1) of the rows of the last import whose source cell
\* is not empty after the trim
SourcePositions(call) ==
  { p \in DOMAIN call.frame.rows :
      /\ Cell(call.frame.rows[p], call.mapping.source_new) # NoText
      /\ Strip(Cell(call.frame.rows[p], call.mapping.source_new)) # <<>> }

HasTarget(call, p) ==
  /\ call.mapping.target # "none" /\ call.mapping.target_locale # "none"
  /\ Cell(call.frame.rows[p], call.mapping.target) # NoText
  /\ Strip(Cell(call.frame.rows[p], call.mapping.target)) # <<>>

\* the existing_target candidates of a segment, over all locales
BaselineRows(seg) ==
  { <<locale, n>> \in Locales \X (1..2) :
      /\ n \in DOMAIN translation_candidates[<<seg.id, locale>>]
      /\ translation_candidates[<<seg.id, locale>>][n].candidate_type = "existing_target" }

BaselineAsStated(call, p, seg) ==
  IF HasTarget(call, p)
    THEN /\ Cardinality(BaselineRows(seg)) = 1
         /\ \A row \in BaselineRows(seg) :
              /\ row[1] = call.mapping.target_locale
              /\ translation_candidates[<<seg.id, row[1]>>][row[2]].score = 100
              /\ translation_candidates[<<seg.id, row[1]>>][row[2]].candidate_text
                   = Cell(call.frame.rows[p], call.mapping.target)
    ELSE BaselineRows(seg) = {}

\* the counts add up and the rows with a source, and only they, are the
\* segments of the asset, each with the row index given for its position
ImportedAsStated(call, row_index) ==
  /\ call.imported_rows + call.skipped_rows = Len(call.frame.rows)
  /\ call.imported_rows = Cardinality(SourcePositions(call))
  /\ Cardinality({ seg \in segments : seg.asset_id = call.asset_id })
       = Cardinality(SourcePositions(call))
  /\ \A p \in SourcePositions(call) :
       \E seg \in segments :
         /\ seg.asset_id = call.asset_id
         /\ seg.source_text = Cell(call.frame.rows[p], call.mapping.source_new)
         /\ seg.row_index = row_index[p]
         /\ BaselineAsStated(call, p, seg)

\* the import of the step returned a summary
ImportReturn == ImportCall /\ import_summary'.error = "none"

ImportedByPosition ==
  ImportedAsStated(import_summary, [p \in DOMAIN import_summary.frame.rows |-> p + 1])

C25_PositionStep ==
  ImportReturn =>
    /\ ImportedByPosition'
    /\ UNCHANGED approved_translations

\* C25 as stated: for every successful import imported_rows + skipped_rows
\* is the number of rows; exactly the rows with a non-empty source after the
\* trim become segments, each with row_index = its position + 2; a segment
\* has an existing_target candidate of score 1.0 iff target column and
\* target locale are mapped and its target cell is not empty; no approval
\* is created.
C25_RowIndexIsPositionPlusTwo == [][C25_PositionStep]_vars

\* the spreadsheet row number: the integer label of the row + 2, or the
\* position + 2 for a label that is no integer
RowNumbers(frame) ==
  [p \in DOMAIN frame.rows |->
     IF frame.names[p].integral THEN frame.names[p].value + 2 ELSE p + 1]

ImportedByRowNumber == ImportedAsStated(import_summary, RowNumbers(import_summary.frame))

C25_LabelStep ==
  ImportReturn =>
    /\ ImportedByRowNumber'
    /\ UNCHANGED approved_translations

\* C25, amended: as stated, but the row_index of a segment is the integer
\* label of its row in the row-view + 2, and its position + 2 only when the
\* label is no integer.
C25_RowIndexIsRowNumber == [][C25_LabelStep]_vars

\* an import of a filtered row-view (labels 5 and 7) into a project with an
\* approval: one row kept with its target, one without
C25_Witness ==
  /\ import_summary.asset_id = 2
  /\ import_summary.imported_rows = 2
  /\ approved_translations # {}
  /\ \E seg \in segments : seg.asset_id = 2 /\ seg.row_index = 9
  /\ \E seg \in segments : seg.asset_id = 2 /\ BaselineRows(seg) # {}


(***************************************************************************)
(* The in-place workbook copy                                              *)
(***************************************************************************)
\* NEW {LANG} of a locale
StatedColumnName(target_locale) ==
  CASE target_locale = "de-DE" -> HeadNewDE
    [] target_locale = "fr" -> HeadNewFR

\* the approved texts of the segments of an asset on a row of its sheet,
\* for the rows from 2 on
ApprovedTextsAt(asset_id, target_locale, row) ==
  { p[2].final_text : p \in { q \in segments \X approved_translations :
                                /\ q[2].segment_id = q[1].id
                                /\ q[1].asset_id = asset_id
                                /\ q[2].target_locale = target_locale
                                /\ q[1].row_index = row
                                /\ row >= 2 } }

\* the header columns of a worksheet that hold a name
HeaderColumns(worksheet, name) ==
  { at[2] : at \in { q \in DOMAIN worksheet : q[1] = 1 /\ worksheet[q] = name } }

\* the copy against the original, with the new column at column c
SheetAsStated(ws, orig, name, c, asset_id, target_locale) ==
  /\ HeaderColumns(orig, name) # {} => c \in HeaderColumns(orig, name)
  /\ \A s \in segments :
       s.asset_id = asset_id /\ ApprovedTextsAt(asset_id, target_locale, s.row_index) # {} =>
         CellValue(ws, s.row_index, c) \in ApprovedTextsAt(asset_id, target_locale, s.row_index)
  /\ \A at \in DOMAIN ws \cup DOMAIN orig :
       \/ at[2] = c /\ ApprovedTextsAt(asset_id, target_locale, at[1]) # {}
       \/ at = <<1, c>>
       \/ CellValue(ws, at[1], at[2]) = CellValue(orig, at[1], at[2])

CopyAsStated ==
  lp_copy.pc = "saved" =>
    /\ DOMAIN lp_copy.workbook = DOMAIN lp_copy.original
    /\ \A name \in DOMAIN lp_copy.workbook \ {"Sheet1"} :
         lp_copy.workbook[name] = lp_copy.original[name]
    /\ Cardinality(HeaderColumns(lp_copy.workbook["Sheet1"],
                                 StatedColumnName(lp_copy.target_locale))) = 1
    /\ \A c \in HeaderColumns(lp_copy.workbook["Sheet1"], StatedColumnName(lp_copy.target_locale)) :
         SheetAsStated(lp_copy.workbook["Sheet1"], lp_copy.original["Sheet1"],
                       StatedColumnName(lp_copy.target_locale), c,
                       lp_copy.asset_id, lp_copy.target_locale)

C26_Step == lp_copy' # lp_copy => CopyAsStated'

MaximalToken(t, start, end) ==
  /\ start < end
  /\ \A k \in start..(end - 1) : InClass("alnum", t[k])
  /\ start = 1 \/ ~InClass("alnum", t[start - 1])
  /\ end = Len(t) + 1 \/ ~InClass("alnum", t[end])

\* equality under a term's case sensitivity
SameUnderCase(left, right, case_sensitive) ==
  /\ Len(left) = Len(right)
  /\ \A k \in DOMAIN left :
       \/ left[k] = right[k]
       \/ ~case_sensitive /\ LowerChar(left[k]) = LowerChar(right[k])

\* the boundary after the first n characters of a token is a compound split
\* point: alpha to digit, digit to alpha, lower to upper, upper to lower
\* after another upper, or upper to upper right before a lower
StatedSplitPoint(token, n) ==
  /\ n >= 1 /\ n < Len(token)
  /\ \/ InClass("alpha", token[n]) /\ InClass("digit", token[n + 1])
     \/ InClass("digit", token[n]) /\ InClass("alpha", token[n + 1])
     \/ InClass("lower", token[n]) /\ InClass("upper", token[n + 1])
     \/ /\ InClass("upper", token[n]) /\ InClass("lower", token[n + 1])
        /\ n >= 2 /\ InClass("upper", token[n - 1])
     \/ /\ InClass("upper", token[n]) /\ InClass("upper", token[n + 1])
        /\ n + 2 <= Len(token) /\ InClass("lower", token[n + 2])

\* the replacement of a compound token under a strategy
StatedCompound(token, term) ==
  CASE term.compound_strategy = "hyphenate" ->
         term.target_term \o <<"-">> \o SubSeq(token, Len(term.source_term) + 1, Len(token))
    [] term.compound_strategy = "replace_prefix" ->
         term.target_term \o SubSeq(token, Len(term.source_term) + 1, Len(token))
    [] term.compound_strategy = "keep_source" -> token

\* a match of a token term as stated
TokenMatchAsStated(t, m) ==
  /\ MaximalToken(t, m.start, m.end)
  /\ \/ /\ SameUnderCase(SubSeq(t, m.start, m.end - 1), m.term.source_term,
                         m.term.case_sensitive)
        /\ m.enforced_text = m.term.target_term
     \/ /\ m.term.allow_compounds
        /\ m.end - m.start > Len(m.term.source_term)
        /\ SameUnderCase(SubSeq(t, m.start, m.start + Len(m.term.source_term) - 1),
                         m.term.source_term, m.term.case_sensitive)
        /\ StatedSplitPoint(SubSeq(t, m.start, m.end - 1), Len(m.term.source_term))
        /\ m.enforced_text = StatedCompound(SubSeq(t, m.start, m.end - 1), m.term)

\* C29: a whole_token or word_boundary term replaces a maximal alphanumeric
\* token only when the token equals the source term under the term's case
\* sensitivity, or, with allow_compounds, when the token is longer, starts
\* with the source term and the term ends at a compound split point; the
\* compound is then replaced by TARGET-rest (hyphenate), TARGET and rest
\* (replace_prefix) or the unchanged token (keep_source)
C29_TokenTermsMatchWholeTokens ==
  glossary.pc = "matched" =>
    \A k \in DOMAIN glossary.matches :
      glossary.matches[k].term.match_type \in {"whole_token", "word_boundary"} =>
        TokenMatchAsStated(glossary.text, glossary.matches[k])

\* a compound is matched at a split point while the same term, followed by
\* lower-case letters, would be a mere substring
C29_Witness ==
  /\ glossary.pc = "matched"
  /\ glossary.text = <<"G", "o", "K", "a", "r", "t", ".">>
  /\ Len(glossary.matches) = 1
  /\ glossary.matches[1].is_compound
  /\ glossary.matches[1].term.compound_strategy = "replace_prefix"
  /\ glossary.matches[1].enforced_text = TextLos \o <<"K", "a", "r", "t">>

(***************************************************************************)
(* Loading the must-use terms of a project                                 *)
(***************************************************************************)
\* the must-use terms a project defines for the locale of the call
DefinedFor(project_id) ==
  { row \in glossary.terms : /\ row.project_id = project_id
                             /\ row.locale_code = glossary.locale_code
                             /\ row.rule = "must_use" }

\* the order of the list: longer source terms first, then the case-folded
\* source term, then the id
InListOrder(a, b) ==
  \/ Len(a.source_term) > Len(b.source_term)
  \/ /\ Len(a.source_term) = Len(b.source_term)
     /\ StrLess(Lower(a.source_term), Lower(b.source_term))
  \/ /\ Len(a.source_term) = Len(b.source_term)
     /\ Lower(a.source_term) = Lower(b.source_term)
     /\ a.id < b.id

LoadedAsStated ==
  glossary.pc = "loaded" =>
    /\ glossary.include_global =>
         \A mine \in DefinedFor(glossary.project_id), global \in DefinedFor("global") :
           mine.source_term = global.source_term =>
             \A k \in DOMAIN glossary.loaded :
               glossary.loaded[k].source_term = mine.source_term => glossary.loaded[k] = mine
    /\ \A i, j \in DOMAIN glossary.loaded :
         i # j => glossary.loaded[i].source_term # glossary.loaded[j].source_term
    /\ \A i, j \in DOMAIN glossary.loaded :
         i < j => InListOrder(glossary.loaded[i], glossary.loaded[j])
    /\ \A row \in DefinedFor(glossary.project_id) :
         \E k \in DOMAIN glossary.loaded : glossary.loaded[k] = row

C30_Step == glossary'.terms = glossary.terms => LoadedAsStated'

\* C30: load_must_use_terms with include_global returns, for a source term
\* defined for the global project and for the project, only the project's
\* term; the list has one entry per distinct source term and is ordered by
\* descending source-term length, then case-folded source term, then id
C30_ProjectTermWinsInOrder == [][C30_Step]_vars

\* a load with the global terms where the project overrides one global
\* term, takes over another and holds two terms that differ in case only
C30_Witness ==
  /\ glossary.pc = "loaded"
  /\ glossary.include_global
  /\ glossary.project_id = "p1"
  /\ Len(glossary.loaded) = 3
  /\ glossary.loaded[1].project_id = "global"
  /\ glossary.loaded[2].source_term = SourceGo /\ glossary.loaded[2].project_id = "p1"
  /\ glossary.loaded[3].source_term = <<"g", "o">>
  /\ \E global \in DefinedFor("global") : global.source_term = SourceGo
  /\ LoadedAsStated
(***************************************************************************)
(* Properties of the TM search, the review rows, the matcher's selection,  *)
(* the FTS mirror, the use counters, migrations and job runs               *)
(***************************************************************************)
\* the hits of the last search are in the order search_fuzzy promises
HitsOrdered ==
  \A i \in 1..(Len(search.hits) - 1) :
    \/ search.hits[i].score > search.hits[i + 1].score
    \/ /\ search.hits[i].score = search.hits[i + 1].score
       /\ search.hits[i].tm_id < search.hits[i + 1].tm_id

\* every hit is a tm_entries row of the queried scope
HitsInScope ==
  \A i \in DOMAIN search.hits :
    \E r \in tm_entries : /\ r.id = search.hits[i].tm_id
                          /\ r.project_id = search.project_id
                          /\ r.source_locale = search.source_locale
                          /\ r.target_locale = search.target_locale

\* C31 as stated: search_fuzzy returns at most limit hits, all of the
\* queried (project, source locale, target locale), ordered by non-increasing
\* score with ties broken by ascending TM id; the first hit's score is at
\* least the last hit's score.
C31_AtMostLimitHits ==
  search.pc = "done" =>
    /\ Len(search.hits) <= search.limit
    /\ HitsInScope
    /\ HitsOrdered
    /\ search.hits # <<>> => search.hits[1].score >= search.hits[Len(search.hits)].score

\* C31 amended: search_fuzzy returns at most max(1, limit) hits, all of the
\* queried scope, ordered by non-increasing score with ties broken by
\* ascending TM id; the first hit's score is at least the last hit's score.
C31_AtMostClampedLimitHits ==
  search.pc = "done" =>
    /\ Len(search.hits) <= (IF search.limit > 1 THEN search.limit ELSE 1)
    /\ HitsInScope
    /\ HitsOrdered
    /\ search.hits # <<>> => search.hits[1].score >= search.hits[Len(search.hits)].score

\* a search cut to two hits whose scores tie, with a row of another
\* project in the mirror
C31_Witness ==
  /\ search.pc = "done"
  /\ search.limit = 2
  /\ Len(search.hits) = 2
  /\ search.hits[1].score = search.hits[2].score
  /\ Cardinality({ r \in tm_fts : r.project_id = "p1" /\ r.target_locale = "de" }) = 3
  /\ \E r \in tm_fts : r.project_id = "p2"

\* C35: after any sequence of TM upserts and approvals the FTS mirror holds
\* exactly one row per tm_entries id, with that entry's current project,
\* source locale, target locale, source text and target text, and no row
\* for an id absent from tm_entries.
C35_FtsMirrorsTmEntries ==
  /\ \A t \in tm_entries :
       /\ Cardinality({ r \in tm_fts : r.tm_id = t.id }) = 1
       /\ \A r \in tm_fts :
            r.tm_id = t.id =>
              /\ r.project_id = t.project_id
              /\ r.source_locale = t.source_locale
              /\ r.target_locale = t.target_locale
              /\ r.source_text = t.source_text
              /\ r.target_text = t.target_text
  /\ \A r \in tm_fts : \E t \in tm_entries : t.id = r.tm_id

\* two entries, one of them rewritten by a later approval, so that its
\* mirror row was deleted and inserted again
C35_Witness ==
  /\ Cardinality(tm_entries) = 2
  /\ \E t \in tm_entries : t.updated_at > t.created_at
  /\ \E r \in tm_fts : r.rowid > 2

\* tm_entries as the last commit left it: a running job's writes are still
\* inside its transaction
CommittedTm == IF run.pc = "running" THEN run.saved[4] ELSE tm_entries

UsesOf(tm_id, consumed) == Cardinality({ i \in DOMAIN consumed : consumed[i] = tm_id })

\* the pass a running job has just made consumed the TM row tm_id
PassConsumed(tm_id) ==
  /\ run.pc = "running" /\ run'.pc = "running"
  /\ Len(run'.trace) = Len(run.trace) + 1
  /\ run'.trace[Len(run'.trace)].called
  /\ run'.trace[Len(run'.trace)].tm_id = tm_id

UseCountStep ==
  \* a consumed hit adds exactly 1 and stamps last_used_at
  /\ \A t \in tm_entries :
       PassConsumed(t.id) =>
         \E u \in tm_entries' : /\ u.id = t.id
                                /\ u.use_count = t.use_count + 1
                                /\ u.last_used_at = clock
  \* a pass leaves the counters of the rows it did not consume alone
  /\ \A t \in tm_entries :
       (run.pc = "running" /\ run'.pc = "running" /\ ~PassConsumed(t.id)) => t \in tm_entries'
  \* a new row starts at 0
  /\ \A u \in tm_entries' :
       (\A t \in tm_entries : t.id # u.id) => u.use_count = 0
  \* upserts and approvals keep the counters
  /\ ~Busy =>
       \A t \in tm_entries : \A u \in tm_entries' : u.id = t.id => u.use_count = t.use_count
  \* the committed counters never decrease
  /\ \A t \in CommittedTm : \E u \in CommittedTm' : u.id = t.id /\ u.use_count >= t.use_count

\* C36: a consumed TM hit (exact, or fuzzy of at least 92) of a job that ends
\* done adds exactly 1 to the row's use_count and stamps last_used_at; a new
\* row starts at 0; upserts and approvals never change use_count; so the
\* committed use_count never decreases and equals the number of consumed
\* hits of completed jobs.
C36_UseCountCountsConsumedHits ==
  [][ /\ UseCountStep
      /\ \A u \in CommittedTm' : u.use_count = UsesOf(u.id, run'.consumed) ]_vars

\* a row used twice by jobs that ended done, in a store that also saw a job
\* fail
C36_Witness ==
  /\ run.pc = "done"
  /\ \E t \in tm_entries : t.use_count = 2 /\ t.last_used_at # 0
  /\ \E j \in DOMAIN jobs : jobs[j].status = "failed"

\* what find_exact returns for the segment a running job handles next
ExactFor(job, seg) ==
  find_exact(tm_entries, seg.project_id, seg.source_locale, job.target_locale,
             seg.source_text)

\* e is the record of a pass that generated a candidate; exact is the result
\* of the exact lookup just before the pass
GeneratedAsStated(e, exact) ==
  /\ e.translated # NoTokens <=> (exact = NoRow /\ e.fuzzy_score < 92)
  /\ exact # NoRow =>
       /\ e.candidate_type = "tm_exact" /\ e.score = 100
       /\ e.candidate_text = exact.target_text
  /\ (exact = NoRow /\ e.fuzzy_score >= 92) =>
       e.candidate_type = "tm_fuzzy" /\ e.score = e.fuzzy_score
  \* on a TM hit no model pass ran: neither translator nor reviewer
  /\ e.candidate_type \in {"tm_exact", "tm_fuzzy"} =>
       /\ e.translated = NoTokens /\ e.output = NoTokens
       /\ e.model_info = ModelInfo("tm")
  /\ e.candidate_type \in {"tm_exact", "tm_fuzzy", "llm_draft", "llm_reviewed"}
  /\ e.candidate_type \in {"llm_draft", "llm_reviewed"} => e.translated # NoTokens

C32_Step ==
  (/\ run.pc = "running" /\ run'.pc = "running"
   /\ Len(run'.trace) = Len(run.trace) + 1
   /\ run'.trace[Len(run'.trace)].called)
  => GeneratedAsStated(run'.trace[Len(run'.trace)],
                       ExactFor(jobs[run.job_id],
                                SegmentOf(<<jobs[run.job_id].asset_id, run.idx>>)))

\* C32: for each segment the pipeline generates for, the translator is
\* invoked iff the TM exact lookup misses and the best fuzzy hit scores below
\* 92; an exact hit yields tm_exact with score 1.0, otherwise a fuzzy hit of
\* at least 92 yields tm_fuzzy with score hit/100; the reviewer is never
\* invoked on a TM hit, and the pass produces exactly one of tm_exact,
\* tm_fuzzy, llm_draft, llm_reviewed.
C32_TranslatorOnlyOnTmMiss == [][C32_Step]_vars

\* one run that took an exact hit for a segment and called the translator
\* for another whose best fuzzy hit scored 91
C32_Witness ==
  /\ \E i \in DOMAIN run.trace :
       run.trace[i].called /\ run.trace[i].candidate_type = "tm_exact"
  /\ \E i \in DOMAIN run.trace :
       /\ run.trace[i].called
       /\ run.trace[i].fuzzy_score = 91
       /\ run.trace[i].candidate_type = "llm_draft"

\* a step of a job run: create_job, or any step while the run is in flight
JobRunStep == Len(jobs') > Len(jobs) \/ Busy

\* C39: no job run of any kind creates, modifies or deletes an
\* approved_translations row: the approved text of every (segment, locale)
\* is the same before and after a translation, variant A or variant B job,
\* whether it ends done or failed.
C39_JobsLeaveApprovedAlone ==
  [][JobRunStep => approved_translations' = approved_translations]_vars

\* jobs of two kinds have ended, one done and one failed, over a segment
\* that has an approved translation and got a candidate from a job
C39_Witness ==
  /\ run.pc \in {"done", "failed"}
  /\ \E i, j \in DOMAIN jobs :
       /\ jobs[i].status = "done" /\ jobs[j].status = "failed"
       /\ jobs[i].job_type # jobs[j].job_type
       /\ \E a \in approved_translations :
            /\ a.segment_id[1] = jobs[i].asset_id
            /\ a.target_locale = jobs[i].target_locale
            /\ translation_candidates[<<a.segment_id, a.target_locale>>] # <<>>

\* a step of upsert_candidate as the review screen calls it
ManualUpsertStep ==
  /\ ~Busy /\ ~Busy'
  /\ run'.calls = run.calls + 1
  /\ translation_candidates' # translation_candidates
  /\ UNCHANGED <<assets, segments, import_summary, approvals, jobs>>

\* C38: after an upsert_candidate for (segment, locale) commits,
\* get_latest_candidate(segment, locale) returns that candidate, whatever
\* candidates of other types exist and even when they were generated within
\* the same second (the rows of the pair stay as they are until the next
\* upsert for it).
C38_UpsertedCandidateIsLatest ==
  [][ManualUpsertStep =>
       \A k \in SegmentKeys :
         translation_candidates'[k] # translation_candidates[k] =>
           /\ get_latest_candidate(translation_candidates'[k]).candidate_type = "edited"
           /\ get_latest_candidate(translation_candidates'[k]).generated_at = clock]_vars

\* the proposed candidate as stated: the latest change proposal if one
\* exists, else the latest candidate that is not the import baseline
ProposedAsStated(rows) ==
  LET changes == { p \in DOMAIN rows :
                     rows[p].candidate_type \in {"change_proposed", "change_flagged_proposed"} }
      others == { p \in DOMAIN rows : rows[p].candidate_type # "existing_target" }
  IN IF changes # {} THEN rows[LatestAmong(rows, changes)]
     ELSE IF others # {} THEN rows[LatestAmong(rows, others)]
     ELSE NoRow

\* C33: in every review row, proposed is the latest change_proposed /
\* change_flagged_proposed candidate of the segment if one exists, and
\* otherwise the latest candidate whose type is not existing_target; so it
\* is non-null whenever the segment has a candidate of another type than
\* existing_target, also when an existing_target candidate shares its
\* generated_at.
C33_ProposedSkipsBaseline ==
  \A k \in SegmentKeys :
    /\ ReviewProposed(translation_candidates[k]) = ProposedAsStated(translation_candidates[k])
    /\ (\E p \in DOMAIN translation_candidates[k] :
          translation_candidates[k][p].candidate_type # "existing_target")
         => ReviewProposed(translation_candidates[k]) # NoRow

Overlapping(a, b) == a.start < b.end /\ b.start < a.end

\* the placeholder and term tokens of the text are all still there in the
\* term-tokenized text, next to the tokens enforcement put in
TokensIntact(t, matches) ==
  /\ PHTokenSeq(EnforceWith(t, matches).text_with_term_tokens) = PHTokenSeq(t)
  /\ Len(TermTokenSeq(EnforceWith(t, matches).text_with_term_tokens))
       = Len(TermTokenSeq(t)) + Len(matches)
  /\ Range(TermTokenSeq(t))
       \subseteq Range(TermTokenSeq(EnforceWith(t, matches).text_with_term_tokens))

SelectedAsStated(t, selected, candidates) ==
  /\ selected \subseteq candidates
  /\ \A a, b \in selected : a # b => ~Overlapping(a, b)
  /\ \A a \in selected : ~SpanOverlaps(a.start, a.end, LockedSpans(t))
  /\ \A c \in candidates \ selected : \E a \in selected : Overlapping(c, a)
  /\ \A a \in selected : \A c \in candidates : c.start = a.start => c.end <= a.end

\* C34: the matches glossary enforcement selects are pairwise
\* non-overlapping, never overlap a PH or TERM token already in the text (so
\* each such token is intact in the term-tokenized text), no discarded
\* candidate could be added without overlapping a selected one, and among
\* candidates starting at the same position the longest span is selected.
C34_SelectionIsMaximalAndDisjoint ==
  glossary.pc = "matched" =>
    /\ SelectedAsStated(glossary.text, Range(glossary.matches),
                        AllMatches(glossary.text, glossary.loaded,
                                   LockedSpans(glossary.text)))
    /\ TokensIntact(glossary.text, glossary.matches)

\* two matches selected next to a lock token, with a shorter candidate at
\* the start of one of them and another candidate discarded
C34_Witness ==
  /\ glossary.pc = "matched"
  /\ Len(glossary.matches) = 2
  /\ LockedSpans(glossary.text) # {}
  /\ \E c \in AllMatches(glossary.text, glossary.loaded, LockedSpans(glossary.text)) :
       /\ c \notin Range(glossary.matches)
       /\ \E a \in Range(glossary.matches) : c.start = a.start /\ c.end < a.end

\* the call in flight found no migration pending when it began
NothingPending == schema.pc = "migrating" /\ PendingVersions(schema.from_version) = {}

C37_Step ==
  \* the version recorded in the file, and the one the connection sees
  /\ get_schema_version(schema'.saved) >= get_schema_version(schema.saved)
  /\ schema'.pc = "done" => get_schema_version(schema'.db) >= schema.from_version
  \* a call without pending migrations changes nothing
  /\ NothingPending =>
       /\ schema'.db = schema.db /\ schema'.saved = schema.saved
       /\ UNCHANGED <<assets, schema_profiles, segments, translation_candidates, qa_flags,
                      approved_translations, tm_entries, tm_fts, jobs>>

====
